---- MODULE Spec2Model ----
(***************************************************************************)
(* Speech-timing and multi-variant render orchestration of src/main.py.    *)
(*                                                                         *)
(* Several state machines share this module, each with its own            *)
(* specification:                                                          *)
(*   SpecRender  render_all_videos / render_single_video                   *)
(*   SpecRate    _calculate_dynamic_rate                                   *)
(*   SpecAudio   the variant builders (_build_video1_news, ...)            *)
(*   SpecCompress  should_compress_audio                                   *)
(*   SpecTts     generate_azure_tts and its fallback chain                 *)
(*   SpecAssets  generate_tiktok_assets and its call in main               *)
(*   SpecMain    main from the audio assets to the render loop             *)
(*   SpecSched   the order in which one builder's synthesis calls run      *)
(*   SpecLabel   _get_section_label                                        *)
(* The variables of the machines a specification does not run keep their   *)
(* initial values.                                                         *)
(***************************************************************************)
EXTENDS Integers, Sequences, FiniteSets, TLC

VARIABLES
    \* ---- render_all_videos ----
    include_deep_dive,  \* argument of render_all_videos
    json_exists,        \* whether the props file json_path exists
    entry_idx,          \* position of the for loop in manifest_to_use (1-based)
    rendered,           \* local list `rendered`: output paths of successful jobs
    failed,             \* local list `failed`: composition ids of failed jobs
    attempts,           \* history: one record per render_single_video call
    render_pc,          \* "loop" | "returned" | "escaped"
    \* ---- _calculate_dynamic_rate ----
    rate_text,          \* argument `text`
    rate_base,          \* argument `base_rate`, a string (sequence of characters)
    rate_out,           \* what the call produced: a returned string or a raised ValueError
    rate_pc,            \* "call" | "returned" | "raised"
    \* ---- the variant builders ----
    variant,            \* "video_1" .. "video_5": which builder runs
    script,             \* the builder's `script` argument
    pc,                 \* the builder's position
    idx,                \* loop index (enumerate index, 0-based)
    base_rate,          \* local `base_rate`
    result,             \* the timing metadata being built (`result`)
    combined_audio,     \* local `combined_audio`: the audio appended so far
    total_duration,     \* local `total_duration`, in milliseconds
    segment_idx,        \* deep dive: nonlocal `segment_idx`
    synth_calls,        \* history: the synthesis requests made so far
    export_measured,    \* duration of the exported combined file; -1: none exported
    \* ---- should_compress_audio ----
    est_text,           \* argument `total_text`
    est_budget,         \* argument `target_max`, in seconds
    est_out,            \* the returned tuple
    est_pc,             \* "call" | "returned"
    \* ---- generate_azure_tts ----
    tts_text,           \* argument `text`
    tts_viet,           \* how much of the text is Vietnamese: "none" | "partly" | "mostly"
    tts_rate,           \* argument `rate`
    tts_dynamic,        \* argument `use_dynamic_rate`
    azure_available,    \* AZURE_TTS_AVAILABLE and AZURE_SPEECH_KEY
    edge_available,     \* EDGE_TTS_AVAILABLE
    in_event_loop,      \* whether the calling thread is running an event loop
    out_file,           \* the file at `output_path`
    spoken,             \* local `text` once the Vietnamese is removed
    primary_reason,     \* how the primary engine ended; "none", "unavailable"
    primary_reqs,       \* history: requests made to the primary engine
    secondary_reqs,     \* history: requests made to the secondary engine, and whether they saved a file
    tts_out,            \* the returned duration in milliseconds; -1 before the return
    tts_pc,             \* "call" | "primary" | "fallback" | "returned"
    \* ---- generate_tiktok_assets ----
    tiktok_present,     \* whether phase3_json has a non-empty "tiktok_script"
    phase4_present,     \* whether phase4_json has "video_5_deep_dive"
    builds,             \* history: the builders awaited, and how each ended
    audio_paths,        \* keys of local dict `audio_paths`
    assets_idx,         \* which builder is next (1-based)
    assets_pc,          \* "start" | "building" | "returned" | "raised"
    run_pc,             \* main: "assets" | "continues" | "stopped" | "crashed"
    \* ---- main ----
    main_pc,            \* main: "assets" | "check" | "data" | "render" | "rendering" | "returned_early" | "crashed"
    data_p3_tiktok,     \* whether data_p3 has a non-empty "tiktok_script"
    builders_run,       \* history: how many builders generate_tiktok_assets awaited
    audio_result,       \* what asyncio.run(generate_tiktok_assets(...)) gave: "empty" | "paths" | "raised"
    data_written,       \* history: whether this run wrote final_data.json
    \* ---- the synthesis calls of one builder, as scheduled ----
    call_kind,          \* "direct": generate_azure_tts called in the coroutine; "executor": awaited through generate_azure_tts_async
    piece_texts,        \* per piece in program order: whether its text is non-blank
    piece_n,            \* the piece the builder is at (1-based)
    co_pc,              \* the builder coroutine: "ready" | "awaiting" | "done"
    in_flight,          \* the pieces whose generate_azure_tts call has started and not returned
    started,            \* history: the pieces in the order their synthesis started
    future_done,        \* the pieces whose call has returned its duration
    known,             \* the pieces whose duration the builder holds
    \* ---- _get_section_label ----
    label_section,      \* argument `section`, a string (sequence of characters)
    label_out,          \* the returned string: a label of the table, or the raw tag
    label_pc           \* "call" | "returned"

renderVars == <<include_deep_dive, json_exists, entry_idx, rendered, failed,
                attempts, render_pc>>

rateVars == <<rate_text, rate_base, rate_out, rate_pc>>

audioVars == <<variant, script, pc, idx, base_rate, result, combined_audio,
               total_duration, segment_idx, synth_calls, export_measured>>

estVars == <<est_text, est_budget, est_out, est_pc>>

ttsVars == <<tts_text, tts_viet, tts_rate, tts_dynamic, azure_available,
             edge_available, in_event_loop, out_file, spoken, primary_reason,
             primary_reqs, secondary_reqs, tts_out, tts_pc>>

assetsVars == <<tiktok_present, phase4_present, builds, audio_paths, assets_idx,
                assets_pc, run_pc>>

mainVars == <<main_pc, data_p3_tiktok, builders_run, audio_result, data_written>>

schedVars == <<call_kind, piece_texts, piece_n, co_pc, in_flight, started, future_done, known>>

labelVars == <<label_section, label_out, label_pc>>

vars == <<renderVars, rateVars, audioVars, estVars, ttsVars, assetsVars, mainVars, schedVars, labelVars>>

\* What each machine leaves alone.
notRender == <<rateVars, audioVars, estVars, ttsVars, assetsVars, mainVars, schedVars, labelVars>>
notRate   == <<renderVars, audioVars, estVars, ttsVars, assetsVars, mainVars, schedVars, labelVars>>
notAudio  == <<renderVars, rateVars, estVars, ttsVars, assetsVars, mainVars, schedVars, labelVars>>
notEst    == <<renderVars, rateVars, audioVars, ttsVars, assetsVars, mainVars, schedVars, labelVars>>
notTts    == <<renderVars, rateVars, audioVars, estVars, assetsVars, mainVars, schedVars, labelVars>>
notAssets == <<renderVars, rateVars, audioVars, estVars, ttsVars, mainVars, schedVars, labelVars>>
notMain == <<renderVars, rateVars, audioVars, estVars, ttsVars, assetsVars, schedVars, labelVars>>
notSched == <<renderVars, rateVars, audioVars, estVars, ttsVars, assetsVars, mainVars, labelVars>>
notLabel == <<renderVars, rateVars, audioVars, estVars, ttsVars, assetsVars, mainVars, schedVars>>

(***************************************************************************)
(* Sequence helpers                                                        *)
(***************************************************************************)
IsPrefix(s, t) == Len(s) <= Len(t) /\ SubSeq(t, 1, Len(s)) = s

Range(s) == {s[i] : i \in 1..Len(s)}

(***************************************************************************)
(* 6. REMOTION RENDER                                                      *)
(***************************************************************************)
VIDEO_MANIFEST ==
    << [key |-> "video_1_news",         composition |-> "TikTok-NewsHealing",  prefix |-> "V1_News"],
       [key |-> "video_2_outline",      composition |-> "TikTok-WritingCoach", prefix |-> "V2_Writing"],
       [key |-> "video_3_vocab_quiz",   composition |-> "TikTok-VocabQuiz",    prefix |-> "V3_Vocab"],
       [key |-> "video_4_grammar_quiz", composition |-> "TikTok-GrammarQuiz",  prefix |-> "V4_Grammar"],
       [key |-> "video_5_deep_dive",    composition |-> "YouTube-DeepDive",    prefix |-> "V5_DeepDive"] >>

\* manifest_to_use = VIDEO_MANIFEST if include_deep_dive else VIDEO_MANIFEST[:4]
manifest_to_use(incl) ==
    IF incl THEN VIDEO_MANIFEST ELSE SubSeq(VIDEO_MANIFEST, 1, 4)

\* video_path = topik-video/public/{prefix}_{timestamp}.mp4 ; the timestamp is
\* taken once per call of render_all_videos, so the prefix identifies the path.
video_path(entry) == entry.prefix

(* What the external engine (npx remotion render, through subprocess.run with
   check=True) can do in one invocation:
     kind  "exit_zero"     the process exited with status 0
           "exit_nonzero"  CalledProcessError
           "exception"     subprocess.run raised another Exception
           "pre_exception" render_single_video raised outside its own try
                           block (lines 2536-2558)
     out   whether the output file exists once the invocation is over        *)
EngineOutcomes ==
    [kind : {"exit_zero", "exit_nonzero", "exception", "pre_exception"},
     out  : BOOLEAN]

\* The engine is not invoked at all (props file missing).
NotInvoked == [kind |-> "none", out |-> FALSE]

\* render_single_video with the success test on the output file left out.
render_single_video_no_output_check(jsonExists, o) ==
    IF o.kind = "pre_exception" THEN "Raise"
    ELSE IF ~jsonExists THEN "False"
    ELSE IF o.kind = "exit_zero" THEN "True"
    ELSE "False"

\* render_single_video: "True" | "False", or "Raise" when an exception leaves it.
render_single_video(jsonExists, o) ==
    IF o.kind = "pre_exception" THEN "Raise"
    ELSE IF ~jsonExists THEN "False"                       \* 2539-2541
    ELSE IF o.kind = "exit_nonzero" THEN "False"           \* 2580-2582
    ELSE IF o.kind = "exception" THEN "False"              \* 2583-2585
    ELSE IF o.out THEN "True"                              \* 2572-2575
    ELSE "False"                                           \* 2576-2578

\* The loop body with the outer try/except removed: an exception of
\* render_single_video leaves render_all_videos.
record_result_no_isolation(r, f, entry, res) ==
    IF res = "True"
    THEN [rendered |-> Append(r, video_path(entry)), failed |-> f, escaped |-> FALSE]
    ELSE IF res = "False"
    THEN [rendered |-> r, failed |-> Append(f, entry.composition), escaped |-> FALSE]
    ELSE [rendered |-> r, failed |-> f, escaped |-> TRUE]

\* Lines 2618-2633: the try/except around one manifest entry.
record_result(r, f, entry, res) ==
    IF res = "True"
    THEN [rendered |-> Append(r, video_path(entry)), failed |-> f, escaped |-> FALSE]
    ELSE [rendered |-> r, failed |-> Append(f, entry.composition), escaped |-> FALSE]

\* A loop that stops at the first failed entry.
next_entry_break_on_failure(i, n, res) == IF res = "True" THEN i + 1 ELSE n + 1

\* `for entry in manifest_to_use` with `continue` in the except clause: the
\* loop always goes on to the next entry.
next_entry(i, n, res) == i + 1

StartRender ==
    /\ include_deep_dive \in BOOLEAN
    /\ json_exists \in BOOLEAN
    /\ entry_idx = 1
    /\ rendered = <<>>
    /\ failed = <<>>
    /\ attempts = <<>>
    /\ render_pc = "loop"

\* One iteration of the for loop of render_all_videos (lines 2611-2633).
RenderEntry ==
    /\ render_pc = "loop"
    /\ entry_idx <= Len(manifest_to_use(include_deep_dive))
    /\ \E o \in EngineOutcomes :
         LET m     == manifest_to_use(include_deep_dive)
             entry == m[entry_idx]
             res   == render_single_video(json_exists, o)
             rec   == record_result(rendered, failed, entry, res)
             seen  == IF json_exists \/ o.kind = "pre_exception" THEN o ELSE NotInvoked
         IN  /\ attempts' = Append(attempts,
                    [idx |-> entry_idx,
                     invoked |-> json_exists /\ o.kind # "pre_exception",
                     kind |-> seen.kind, out |-> seen.out])
             /\ rendered' = rec.rendered
             /\ failed' = rec.failed
             /\ IF rec.escaped
                THEN render_pc' = "escaped" /\ entry_idx' = entry_idx
                ELSE render_pc' = "loop"
                     /\ entry_idx' = next_entry(entry_idx, Len(m), res)
    /\ UNCHANGED <<include_deep_dive, json_exists>>
    /\ UNCHANGED notRender

\* Lines 2635-2646: the summary and `return rendered`.
RenderReturn ==
    /\ render_pc = "loop"
    /\ entry_idx > Len(manifest_to_use(include_deep_dive))
    /\ render_pc' = "returned"
    /\ UNCHANGED <<include_deep_dive, json_exists, entry_idx, rendered, failed, attempts>>
    /\ UNCHANGED notRender

NextRender == RenderEntry \/ RenderReturn


(***************************************************************************)
(* Python strings, as sequences of one-character strings                   *)
(***************************************************************************)
Digits == <<"0", "1", "2", "3", "4", "5", "6", "7", "8", "9">>

IsDigit(c) == \E i \in 1..10 : Digits[i] = c

DigitValue(c) == (CHOOSE i \in 1..10 : Digits[i] = c) - 1

\* s.replace(c, "") for a one-character c
Remove(s, c) == SelectSeq(s, LAMBDA x : x # c)

\* s.startswith(c) for a one-character c
StartsWith(s, c) == Len(s) > 0 /\ s[1] = c

RECURSIVE LStrip(_)
LStrip(s) == IF Len(s) > 0 /\ s[1] = " " THEN LStrip(Tail(s)) ELSE s

RECURSIVE RStrip(_)
RStrip(s) ==
    IF Len(s) > 0 /\ s[Len(s)] = " " THEN RStrip(SubSeq(s, 1, Len(s) - 1)) ELSE s

RECURSIVE DigitsToNat(_, _)
\* The value of a run of decimal digits (underscores skipped), acc on the left.
DigitsToNat(s, acc) ==
    IF s = <<>> THEN acc
    ELSE IF s[1] = "_" THEN DigitsToNat(Tail(s), acc)
    ELSE DigitsToNat(Tail(s), 10 * acc + DigitValue(s[1]))

\* A decimal literal body int() accepts: digits, with single underscores
\* allowed between two digits.
IsDecimalBody(s) ==
    /\ Len(s) > 0
    /\ \A i \in 1..Len(s) :
         \/ IsDigit(s[i])
         \/ /\ s[i] = "_"
            /\ 1 < i /\ i < Len(s)
            /\ IsDigit(s[i - 1]) /\ IsDigit(s[i + 1])

(* Python's int(s) for a str: surrounding whitespace is ignored, one sign is
   allowed, the rest must be a decimal literal; anything else raises
   ValueError.  [ok |-> FALSE] stands for the raise. *)
PyInt(s) ==
    LET t    == RStrip(LStrip(s))
        neg  == StartsWith(t, "-")
        body == IF StartsWith(t, "+") \/ StartsWith(t, "-") THEN Tail(t) ELSE t
    IN  IF IsDecimalBody(body)
        THEN [ok |-> TRUE,
              val |-> IF neg THEN 0 - DigitsToNat(body, 0) ELSE DigitsToNat(body, 0)]
        ELSE [ok |-> FALSE, val |-> 0]

RECURSIVE NatToStr(_)
\* str(n) for n >= 0
NatToStr(n) ==
    IF n < 10 THEN <<Digits[n + 1]>>
    ELSE NatToStr(n \div 10) \o <<Digits[(n % 10) + 1]>>

\* str(n) for an int
IntToStr(n) == IF n < 0 THEN <<"-">> \o NatToStr(0 - n) ELSE NatToStr(n)

(***************************************************************************)
(* 2. SSML dynamic rate                                                    *)
(***************************************************************************)
(* A text is described by its shape: `lead` whitespace characters, then
   `core` characters that neither start nor end with whitespace, then `trail`
   whitespace characters.  len(text) and len(text.strip()) follow. *)
TextLen(text) == text.lead + text.core + text.trail

\* len(text.strip())
StrippedLen(text) == text.core

\* SSML_RATE_THRESHOLDS, in insertion order; max_chars of the last tier is
\* float('inf'), written -1 here and read by FitsTier.
SSML_RATE_THRESHOLDS ==
    << [tier |-> "short",      max_chars |-> 50,  rate |-> <<"+", "0", "%">>],
       [tier |-> "medium",     max_chars |-> 150, rate |-> <<"+", "1", "0", "%">>],
       [tier |-> "long",       max_chars |-> 300, rate |-> <<"+", "1", "5", "%">>],
       [tier |-> "very_long",  max_chars |-> 500, rate |-> <<"+", "2", "0", "%">>],
       [tier |-> "extra_long", max_chars |-> -1,  rate |-> <<"+", "2", "5", "%">>] >>

\* The tier test with the boundary excluded (text_length < max_chars).
FitsTier_exclusive(text_length, config) ==
    config.max_chars = -1 \/ text_length < config.max_chars

\* text_length <= config["max_chars"]
FitsTier(text_length, config) ==
    config.max_chars = -1 \/ text_length <= config.max_chars

RECURSIVE dynamic_rate_from(_, _)
\* Lines 591-596: the first tier, in order, that the length fits.
dynamic_rate_from(text_length, k) ==
    IF k > Len(SSML_RATE_THRESHOLDS) THEN [ok |-> TRUE, val |-> 0]
    ELSE IF FitsTier(text_length, SSML_RATE_THRESHOLDS[k])
    THEN PyInt(Remove(Remove(SSML_RATE_THRESHOLDS[k].rate, "%"), "+"))
    ELSE dynamic_rate_from(text_length, k + 1)

\* Lines 598-605: base_rate parsed; [ok |-> FALSE] when int() raises.
parse_base_rate(base_rate_arg) ==
    LET base_rate_clean == Remove(base_rate_arg, "%") IN
    IF StartsWith(base_rate_clean, "+") THEN PyInt(Tail(base_rate_clean))
    ELSE IF StartsWith(base_rate_clean, "-") THEN PyInt(base_rate_clean)
    ELSE IF base_rate_clean # <<>> THEN PyInt(base_rate_clean)
    ELSE [ok |-> TRUE, val |-> 0]

Max(a, b) == IF a >= b THEN a ELSE b
Min(a, b) == IF a <= b THEN a ELSE b

\* A clamp that only caps the upper side.
clamp_rate_upper_only(v) == Min(50, v)

\* Line 611: max(-50, min(50, final_rate_value))
clamp_rate(v) == Max(-50, Min(50, v))

\* Lines 614-617
format_rate(v) ==
    IF v >= 0 THEN <<"+">> \o IntToStr(v) \o <<"%">>
    ELSE IntToStr(v) \o <<"%">>

ValueError == [raised |-> TRUE, value |-> <<>>]

\* _calculate_dynamic_rate(text, base_rate)
_calculate_dynamic_rate(text, base_rate_arg) ==
    LET dyn  == dynamic_rate_from(StrippedLen(text), 1)
        base == parse_base_rate(base_rate_arg)
    IN  IF ~dyn.ok \/ ~base.ok THEN ValueError
        ELSE [raised |-> FALSE,
              value  |-> format_rate(clamp_rate(base.val + dyn.val))]

(* Inputs of the rate machine *)
MaxPad == 1
MaxBaseRate == 100

CoreLengths == {0, 1, 49, 50, 51, 149, 150, 151, 200, 299, 300, 301, 499, 500, 501, 800}

RateTexts == [lead : 0..MaxPad, core : CoreLengths, trail : 0..MaxPad]

\* "+n%" / "-n%" : the way callers write a rate
SignedPct(n) == format_rate(n)

SignedRates == {SignedPct(n) : n \in (0 - MaxBaseRate)..MaxBaseRate} \cup {<<"-", "0", "%">>}

UnsignedRates == {NatToStr(n) \o <<"%">> : n \in {0, 5, 10, 100}} \cup {<<"1", "0">>}

MalformedRates ==
    { <<>>, <<"%">>, <<"+">>, <<"-">>, <<"+", "%">>,
      <<"f", "a", "s", "t">>, <<"+", "x", "%">>, <<"1", ".", "5", "%">>,
      <<"+", "+", "5", "%">>, <<"+", "-", "5", "%">>, <<" ", "5", "%">>,
      <<"1", "_", "0", "%">>, <<"-", "1", "0", " ", "%">> }

RateBases == SignedRates \cup UnsignedRates \cup MalformedRates

NoResult == [raised |-> FALSE, value |-> <<>>]

StartRate ==
    /\ rate_text \in RateTexts
    /\ rate_base \in RateBases
    /\ rate_out = NoResult
    /\ rate_pc = "call"

\* One call of _calculate_dynamic_rate on the chosen arguments.
RateCall ==
    /\ rate_pc = "call"
    /\ rate_out' = _calculate_dynamic_rate(rate_text, rate_base)
    /\ rate_pc' = IF rate_out'.raised THEN "raised" ELSE "returned"
    /\ UNCHANGED <<rate_text, rate_base>>
    /\ UNCHANGED notRate

NextRate == RateCall

(***************************************************************************)
(* 3. TIKTOK AUDIO ASSET GENERATION                                        *)
(*                                                                         *)
(* Durations are counted in milliseconds, the resolution of the reported   *)
(* values (round(duration, 3) seconds).  Caption texts (`vi`) are copied   *)
(* through by the builders and are left out.                               *)
(***************************************************************************)
\* Texts by shape (see TextLen / StrippedLen).
Text(l, c, t) == [lead |-> l, core |-> c, trail |-> t]
EmptyText == Text(0, 0, 0)          \* ""
BlankText == Text(1, 0, 0)          \* " "
ShortText == Text(0, 10, 0)         \* ten characters
LongText  == Text(0, 300, 0)        \* long enough to pass the duration budget alone
Space     == BlankText

\* Python truthiness of a str: `if text:`
Truthy(text) == TextLen(text) > 0

\* `not text or not text.strip()`
IsBlank(text) == ~Truthy(text) \/ StrippedLen(text) = 0

\* a + b for two strs
Concat(a, b) ==
    IF a.core = 0 /\ b.core = 0 THEN Text(TextLen(a) + TextLen(b), 0, 0)
    ELSE IF a.core = 0 THEN Text(TextLen(a) + b.lead, b.core, b.trail)
    ELSE IF b.core = 0 THEN Text(a.lead, a.core, a.trail + TextLen(b))
    ELSE Text(a.lead, a.core + a.trail + b.lead + b.core, b.trail)

RECURSIVE Join(_, _)
\* sep.join(texts)
Join(sep, texts) ==
    IF texts = <<>> THEN EmptyText
    ELSE IF Len(texts) = 1 THEN texts[1]
    ELSE Concat(Concat(texts[1], sep), Join(sep, Tail(texts)))

TIKTOK_MAX_DURATION == 55
CHARS_PER_SECOND == 5
TIKTOK_COMPRESS_RATE == <<"+", "1", "5", "%">>

(* estimate_reading_time(text, chars_per_second = 5.0), counted in
   characters, that is in units of 1 / CHARS_PER_SECOND seconds:
   0.0 for a falsy text, else len(text.strip()) / chars_per_second. *)
estimate_reading_time(text) == IF ~Truthy(text) THEN 0 ELSE StrippedLen(text)

\* Compression already at the budget.
over_budget_inclusive(estimated, target_max) == estimated >= target_max * CHARS_PER_SECOND

\* estimated > target_max   (line 567), estimated counted in characters
over_budget(estimated, target_max) == estimated > target_max * CHARS_PER_SECOND

\* should_compress_audio(total_text, target_max = TIKTOK_MAX_DURATION)
should_compress_audio(total_text, target_max) ==
    IF over_budget(estimate_reading_time(total_text), target_max)
    THEN [compress |-> TRUE, rate |-> TIKTOK_COMPRESS_RATE]
    ELSE [compress |-> FALSE, rate |-> <<"+", "0", "%">>]

\* _VOICE_CFG[video_key]["rate"]
VOICE_CFG_rate(video_key) ==
    IF video_key = "video_1" THEN <<"-", "1", "0", "%">> ELSE <<"+", "0", "%">>

QUIZ_SILENCE_MS == 4000
SHORT_PAUSE_MS == 300       \* AudioSegment.silent(duration=300)
PART_PAUSE_MS == 500        \* AudioSegment.silent(duration=500)

(* What a synthesis call can measure for a produced file (milliseconds), and
   0 when no audio came out of it (both engines failed, or the duration
   could not be read). *)
Durations == {1, 1000}
TtsOutcomes == {0} \cup Durations

\* generate_azure_tts that no longer refuses blank text.
generate_azure_tts_no_blank_check(text, d) == d

(* generate_azure_tts(text, voice, output_path, rate, use_dynamic_rate): the
   returned duration.  Blank text returns 0.0 before any engine is tried;
   otherwise the engines decide (d). *)
generate_azure_tts(text, d) == IF IsBlank(text) THEN 0 ELSE d

(* The rate the engines are given for a text: the dynamic rate for the
   text (_build_ssml, lines 634-637, and lines 712, 756, 760, 765) when
   use_dynamic_rate is true, else the caller's rate. *)
effective_rate(text, rate_arg, use_dynamic_rate) ==
    IF use_dynamic_rate THEN _calculate_dynamic_rate(text, rate_arg).value ELSE rate_arg

\* One synthesis request as it reaches the engines.
SynthCall(text, rate_arg, use_dynamic_rate) ==
    [text |-> text, rate |-> rate_arg, dynamic |-> use_dynamic_rate,
     effective |-> effective_rate(text, rate_arg, use_dynamic_rate)]

(* The requests so far after generate_azure_tts(text, voice, path, rate,
   use_dynamic_rate): a blank text returns before any rate is computed
   (lines 688-689); a falsy text is not passed at all. *)
Logged(calls, text, rate_arg, use_dynamic_rate) ==
    IF IsBlank(text) THEN calls
    ELSE Append(calls, SynthCall(text, rate_arg, use_dynamic_rate))

\* The same for _tts_to_segment(text, voice, rate), which has no tiering.
LoggedSegment(calls, text, rate_arg) == Logged(calls, text, rate_arg, FALSE)

(* Asset paths.  A path f"{stem}{suffix}.mp3" is kept as the pair
   <<stem, suffix>>, the stem ending at the variant prefix ("v2_") or at the
   last fixed underscore ("v1_seg_", "deep_"), so that two pairs are equal
   exactly when the file names are. *)
Path(stem, suffix) == <<stem, suffix>>
IdxStr(i) == Digits[i + 1]

\* Pieces of audio, as appended to combined_audio.
Piece(path, src, ms) == [kind |-> "piece", path |-> path, src |-> src, ms |-> ms]
Silent(ms, after)    == [kind |-> "silent", path |-> Path("", ""), src |-> after, ms |-> ms]

RECURSIVE AudioLen(_)
\* len(audio), in milliseconds
AudioLen(audio) == IF audio = <<>> THEN 0 ELSE audio[1].ms + AudioLen(Tail(audio))

\* The pieces put in front of the audio built so far.
append_audio_front(audio, pieces) == pieces \o audio

\* combined_audio += piece  (lines 1471-1472, 1502, 1521-1522, 1620-1621, 1655-1657, 1677-1678)
append_audio(audio, pieces) == audio \o pieces

None == [none |-> TRUE]

(* What re-reading the exported combined file can give: the length of the
   audio, or that length off by the encoder's rounding, or 0.0 when
   get_audio_duration fails. *)
EncoderDrift == {0, 50}
ExportMeasures(audio) == {0} \cup {AudioLen(audio) + dr : dr \in EncoderDrift}

(***************************************************************************)
(* _build_video1_news                                                      *)
(***************************************************************************)
MaxParts == 2

RECURSIVE SeqsUpTo(_, _)
\* All sequences over S of length at most n
SeqsUpTo(S, n) ==
    IF n = 0 THEN {<<>>}
    ELSE LET shorter == SeqsUpTo(S, n - 1)
         IN  shorter \cup {Append(q, x) : q \in {r \in shorter : Len(r) = n - 1}, x \in S}

OpeningTexts == {EmptyText, BlankText, ShortText}
ClosingTexts == {EmptyText, ShortText}
ContentTexts == {EmptyText, BlankText, ShortText, LongText}

NewsScripts ==
    { sc \in [opening_ment : OpeningTexts,
              closing_ment : ClosingTexts,
              segments     : SeqsUpTo([ko : ContentTexts], MaxParts),
              audio_text   : {EmptyText, ShortText}] :
        sc.segments # <<>> => sc.audio_text = EmptyText }

\* Lines 1427-1432: segments, or audio_text as a single segment
news_segments(sc) ==
    IF sc.segments = <<>> /\ Truthy(sc.audio_text)
    THEN << [ko |-> sc.audio_text] >>
    ELSE sc.segments

KoTexts(parts) == [i \in 1..Len(parts) |-> parts[i].ko]

\* Lines 1439 / 1587: opening + " " + " ".join(ko ...) + " " + closing
total_text_of(opening_ment, parts, closing_ment) ==
    Concat(Concat(Concat(Concat(opening_ment, Space), Join(Space, KoTexts(parts))), Space),
           closing_ment)

EmptyResult ==
    [opening |-> None, segments |-> <<>>, parts |-> <<>>, closing |-> None,
     question_audio |-> None, answer_audio |-> None, silence_duration |-> 0,
     timestamps |-> <<>>,
     total_duration |-> 0, combined_audio |-> None, ssml_compressed |-> FALSE]

\* Lines 1422-1453
NewsStart ==
    /\ variant = "video_1" /\ pc = "start"
    /\ LET segments == news_segments(script)
           sc       == should_compress_audio(
                           total_text_of(script.opening_ment, segments, script.closing_ment),
                           TIKTOK_MAX_DURATION)
       IN  IF segments = <<>> /\ ~Truthy(script.opening_ment)
           THEN /\ pc' = "returned"
                /\ UNCHANGED <<base_rate, result>>
           ELSE /\ pc' = "opening"
                /\ base_rate' = IF sc.compress THEN sc.rate ELSE VOICE_CFG_rate("video_1")
                /\ result' = [EmptyResult EXCEPT !.ssml_compressed = sc.compress]
    /\ UNCHANGED <<synth_calls, variant, script, idx, combined_audio, total_duration,
                   segment_idx, export_measured>>
    /\ UNCHANGED notAudio

\* Lines 1458-1475
NewsOpening ==
    /\ variant = "video_1" /\ pc = "opening"
    /\ \E o \in TtsOutcomes :
         LET opening_path == Path("v1_", "opening")
             duration == IF Truthy(script.opening_ment)
                         THEN generate_azure_tts(script.opening_ment, o) ELSE 0
         IN  IF duration > 0
             THEN /\ result' = [result EXCEPT !.opening =
                                   [audio_path |-> opening_path, duration |-> duration]]
                  /\ combined_audio' = append_audio(combined_audio,
                                         << Piece(opening_path, "opening", duration),
                                               Silent(SHORT_PAUSE_MS, "opening") >>)
                  /\ total_duration' = total_duration + duration + SHORT_PAUSE_MS
             ELSE UNCHANGED <<result, combined_audio, total_duration>>
    /\ pc' = "segments"
    /\ idx' = 0
    /\ synth_calls' = Logged(synth_calls, script.opening_ment, base_rate, FALSE)
    /\ UNCHANGED <<variant, script, base_rate, segment_idx, export_measured>>
    /\ UNCHANGED notAudio

\* Lines 1480-1504: one iteration of `for idx, seg in enumerate(segments)`
NewsSegment ==
    /\ variant = "video_1" /\ pc = "segments"
    /\ idx < Len(news_segments(script))
    /\ \E o \in TtsOutcomes :
         LET ko_text  == news_segments(script)[idx + 1].ko
             seg_path == Path("v1_seg_", IdxStr(idx))
             duration == IF Truthy(ko_text) THEN generate_azure_tts(ko_text, o) ELSE 0
         IN  IF duration > 0
             THEN /\ result' = [result EXCEPT !.segments = Append(@,
                                   [ko |-> ko_text, audio_path |-> seg_path,
                                    src |-> idx, duration |-> duration])]
                  /\ combined_audio' = append_audio(combined_audio, << Piece(seg_path, IdxStr(idx), duration) >>)
                  /\ total_duration' = total_duration + duration
             ELSE UNCHANGED <<result, combined_audio, total_duration>>
    /\ idx' = idx + 1
    /\ synth_calls' = Logged(synth_calls, news_segments(script)[idx + 1].ko, base_rate, TRUE)
    /\ UNCHANGED <<variant, script, pc, base_rate, segment_idx, export_measured>>
    /\ UNCHANGED notAudio

\* Lines 1509-1525
NewsClosing ==
    /\ variant = "video_1" /\ pc = "segments"
    /\ idx >= Len(news_segments(script))
    /\ \E o \in TtsOutcomes :
         LET closing_path == Path("v1_", "closing")
             duration == IF Truthy(script.closing_ment)
                         THEN generate_azure_tts(script.closing_ment, o) ELSE 0
         IN  IF duration > 0
             THEN /\ result' = [result EXCEPT !.closing =
                                   [audio_path |-> closing_path, duration |-> duration]]
                  /\ combined_audio' = append_audio(combined_audio,
                                         << Silent(SHORT_PAUSE_MS, "closing"),
                                               Piece(closing_path, "closing", duration) >>)
                  /\ total_duration' = total_duration + duration + SHORT_PAUSE_MS
             ELSE UNCHANGED <<result, combined_audio, total_duration>>
    /\ pc' = "export"
    /\ synth_calls' = Logged(synth_calls, script.closing_ment, base_rate, FALSE)
    /\ UNCHANGED <<variant, script, idx, base_rate, segment_idx, export_measured>>
    /\ UNCHANGED notAudio

\* The measured duration wins only when it is the larger one.
reported_total_max(measured, summed) == Max(measured, summed)

\* result["total_duration"] = round(actual_duration, 3)   (lines 1534-1535)
reported_total(measured, summed) == measured

\* Lines 1530-1541
NewsExport ==
    /\ variant = "video_1" /\ pc = "export"
    /\ IF AudioLen(combined_audio) > 0
       THEN \E actual_duration \in ExportMeasures(combined_audio) :
              /\ export_measured' = actual_duration
              /\ result' = [result EXCEPT
                              !.total_duration = reported_total(actual_duration, total_duration),
                              !.combined_audio = Path("v1_", "news")]
       ELSE /\ result' = [result EXCEPT !.total_duration = total_duration]
            /\ UNCHANGED export_measured
    /\ pc' = "returned"
    /\ UNCHANGED <<synth_calls, variant, script, idx, base_rate, combined_audio, total_duration, segment_idx>>
    /\ UNCHANGED notAudio

NextNews == NewsStart \/ NewsOpening \/ NewsSegment \/ NewsClosing \/ NewsExport

(***************************************************************************)
(* _build_video2_outline                                                   *)
(***************************************************************************)
LegacyRoles == <<"intro", "body_1", "body_2", "conclusion">>

\* The parts of a script: a role tag and the source-language text.
OutlineParts ==
    [role : {"intro"}, ko : ContentTexts] \cup [role : {"closing"}, ko : {ShortText}]

NoLegacy == [r \in Range(LegacyRoles) |-> EmptyText]

OutlineScripts ==
    { sc \in [opening_ment : OpeningTexts,
              closing_ment : ClosingTexts,
              parts        : SeqsUpTo(OutlineParts, MaxParts),
              legacy       : [Range(LegacyRoles) -> {EmptyText, ShortText}]] :
        sc.parts # <<>> => sc.legacy = NoLegacy }

RECURSIVE legacy_parts(_, _)
\* Lines 1575-1580: parts built from the legacy keys that hold text
legacy_parts(sc, k) ==
    IF k > Len(LegacyRoles) THEN <<>>
    ELSE (IF Truthy(sc.legacy[LegacyRoles[k]])
          THEN << [role |-> LegacyRoles[k], ko |-> sc.legacy[LegacyRoles[k]]] >>
          ELSE <<>>) \o legacy_parts(sc, k + 1)

outline_parts(sc) == IF sc.parts = <<>> THEN legacy_parts(sc, 1) ELSE sc.parts

\* Lines 1567-1602
OutlineStart ==
    /\ variant = "video_2" /\ pc = "start"
    /\ LET parts == outline_parts(script)
           sc    == should_compress_audio(
                        total_text_of(script.opening_ment, parts, script.closing_ment),
                        TIKTOK_MAX_DURATION)
       IN  IF parts = <<>> /\ ~Truthy(script.opening_ment)
           THEN /\ pc' = "returned"
                /\ UNCHANGED <<base_rate, result>>
           ELSE /\ pc' = "opening"
                /\ base_rate' = IF sc.compress THEN sc.rate ELSE VOICE_CFG_rate("video_2")
                /\ result' = [EmptyResult EXCEPT !.ssml_compressed = sc.compress]
    /\ UNCHANGED <<synth_calls, variant, script, idx, combined_audio, total_duration,
                   segment_idx, export_measured>>
    /\ UNCHANGED notAudio

\* Lines 1607-1624
OutlineOpening ==
    /\ variant = "video_2" /\ pc = "opening"
    /\ \E o \in TtsOutcomes :
         LET opening_path == Path("v2_", "opening")
             duration == IF Truthy(script.opening_ment)
                         THEN generate_azure_tts(script.opening_ment, o) ELSE 0
         IN  IF duration > 0
             THEN /\ result' = [result EXCEPT !.opening =
                                   [audio_path |-> opening_path, duration |-> duration]]
                  /\ combined_audio' = append_audio(combined_audio,
                                         << Piece(opening_path, "opening", duration),
                                               Silent(PART_PAUSE_MS, "opening") >>)
                  /\ total_duration' = total_duration + duration + PART_PAUSE_MS
             ELSE UNCHANGED <<result, combined_audio, total_duration>>
    /\ pc' = "parts"
    /\ idx' = 0
    /\ synth_calls' = Logged(synth_calls, script.opening_ment, base_rate, FALSE)
    /\ UNCHANGED <<variant, script, base_rate, segment_idx, export_measured>>
    /\ UNCHANGED notAudio

\* Lines 1629-1660: one iteration of `for idx, part in enumerate(parts)`
OutlinePart ==
    /\ variant = "video_2" /\ pc = "parts"
    /\ idx < Len(outline_parts(script))
    /\ \E o \in TtsOutcomes :
         LET parts     == outline_parts(script)
             part      == parts[idx + 1]
             part_path == Path("v2_", part.role)
             duration  == IF Truthy(part.ko) THEN generate_azure_tts(part.ko, o) ELSE 0
         IN  IF duration > 0
             THEN /\ result' = [result EXCEPT !.parts = Append(@,
                                   [role |-> part.role, ko |-> part.ko,
                                    audio_path |-> part_path,
                                    src |-> idx, duration |-> duration])]
                  /\ IF idx < Len(parts) - 1
                     THEN /\ combined_audio' = append_audio(combined_audio,
                                         << Piece(part_path, IdxStr(idx), duration),
                                       Silent(PART_PAUSE_MS, IdxStr(idx)) >>)
                          /\ total_duration' = total_duration + duration + PART_PAUSE_MS
                     ELSE /\ combined_audio' = append_audio(combined_audio, << Piece(part_path, IdxStr(idx), duration) >>)
                          /\ total_duration' = total_duration + duration
             ELSE UNCHANGED <<result, combined_audio, total_duration>>
    /\ idx' = idx + 1
    /\ synth_calls' = Logged(synth_calls, outline_parts(script)[idx + 1].ko, base_rate, TRUE)
    /\ UNCHANGED <<variant, script, pc, base_rate, segment_idx, export_measured>>
    /\ UNCHANGED notAudio

\* Lines 1665-1681
OutlineClosing ==
    /\ variant = "video_2" /\ pc = "parts"
    /\ idx >= Len(outline_parts(script))
    /\ \E o \in TtsOutcomes :
         LET closing_path == Path("v2_", "closing")
             duration == IF Truthy(script.closing_ment)
                         THEN generate_azure_tts(script.closing_ment, o) ELSE 0
         IN  IF duration > 0
             THEN /\ result' = [result EXCEPT !.closing =
                                   [audio_path |-> closing_path, duration |-> duration]]
                  /\ combined_audio' = append_audio(combined_audio,
                                         << Silent(PART_PAUSE_MS, "closing"),
                                               Piece(closing_path, "closing", duration) >>)
                  /\ total_duration' = total_duration + duration + PART_PAUSE_MS
             ELSE UNCHANGED <<result, combined_audio, total_duration>>
    /\ pc' = "export"
    /\ synth_calls' = Logged(synth_calls, script.closing_ment, base_rate, FALSE)
    /\ UNCHANGED <<variant, script, idx, base_rate, segment_idx, export_measured>>
    /\ UNCHANGED notAudio

\* Lines 1686-1696
OutlineExport ==
    /\ variant = "video_2" /\ pc = "export"
    /\ IF AudioLen(combined_audio) > 0
       THEN \E actual_duration \in ExportMeasures(combined_audio) :
              /\ export_measured' = actual_duration
              /\ result' = [result EXCEPT
                              !.total_duration = reported_total(actual_duration, total_duration),
                              !.combined_audio = Path("v2_", "outline")]
       ELSE /\ result' = [result EXCEPT !.total_duration = total_duration]
            /\ UNCHANGED export_measured
    /\ pc' = "returned"
    /\ UNCHANGED <<synth_calls, variant, script, idx, base_rate, combined_audio, total_duration, segment_idx>>
    /\ UNCHANGED notAudio

NextOutline ==
    OutlineStart \/ OutlineOpening \/ OutlinePart \/ OutlineClosing \/ OutlineExport

(***************************************************************************)
(* _build_quiz_audio (video_3, video_4)                                    *)
(***************************************************************************)
QuizVariants == {"video_3", "video_4"}

\* video_key.split("_")[1], as the file-name stem f"v{video_num}_"
quiz_stem(video_key) == IF video_key = "video_3" THEN "v3_" ELSE "v4_"

\* f"v{video_num}_{'vocab' if video_num == '3' else 'grammar'}_quiz.mp3"
quiz_combined_path(video_key) ==
    IF video_key = "video_3" THEN Path("v3_", "vocab_quiz") ELSE Path("v4_", "grammar_quiz")

(* The fields read at lines 1723-1728, after the `or` / default fallbacks.
   closing_ment is the script value, or the stock closing line when the key
   is missing (a short text). *)
QuizScripts ==
    [opening_ment   : OpeningTexts,
     closing_ment   : ClosingTexts,
     question_ko    : {EmptyText, BlankText, ShortText},
     options_ko     : {<<>>, <<ShortText, ShortText>>},
     correct_answer : {ShortText},
     explanation_ko : {EmptyText, ShortText, LongText}]

\* f"정답은 {correct}입니다."
answer_announce(correct) == Concat(Concat(Text(0, 3, 1), correct), Text(0, 4, 0))

\* Lines 1743-1744
quiz_total_text(sc) ==
    Concat(Concat(Concat(Concat(Concat(Concat(Concat(Concat(Concat(
        sc.opening_ment, Space), sc.question_ko), Space), Join(Space, sc.options_ko)),
        Space), Concat(answer_announce(sc.correct_answer), Space)), sc.explanation_ko),
        Space), sc.closing_ment)

(* _tts_to_segment(text, voice, rate): the length of the returned segment.
   Blank text gives AudioSegment.empty() without a call; otherwise the
   engine gives a segment, or the call raises (-1): there is no try around
   communicate.save / AudioSegment.from_file. *)
RAISED == -1
SegmentLengths == {1000}
TtsSegmentOutcomes == {RAISED} \cup SegmentLengths
tts_to_segment(text, o) == IF IsBlank(text) THEN 0 ELSE o

\* The silence that is only as long as a joining pause.
thinking_silence_short == Silent(SHORT_PAUSE_MS, "thinking")

\* silence = AudioSegment.silent(duration=QUIZ_SILENCE_MS)   (line 1814)
thinking_silence == Silent(QUIZ_SILENCE_MS, "thinking")

\* Lines 1719-1761
QuizStart ==
    /\ variant \in QuizVariants /\ pc = "start"
    /\ IF ~Truthy(script.question_ko)
       THEN /\ pc' = "returned"
            /\ result' = [EmptyResult EXCEPT !.silence_duration = QUIZ_SILENCE_MS]
            /\ UNCHANGED base_rate
       ELSE LET sc == should_compress_audio(quiz_total_text(script), TIKTOK_MAX_DURATION)
            IN  /\ pc' = "opening"
                /\ base_rate' = IF sc.compress THEN sc.rate ELSE VOICE_CFG_rate(variant)
                /\ result' = [EmptyResult EXCEPT !.silence_duration = QUIZ_SILENCE_MS,
                                                 !.ssml_compressed = sc.compress]
    /\ UNCHANGED <<synth_calls, variant, script, idx, combined_audio, total_duration,
                   segment_idx, export_measured>>
    /\ UNCHANGED notAudio

\* Lines 1766-1784
QuizOpening ==
    /\ variant \in QuizVariants /\ pc = "opening"
    /\ \E o \in TtsOutcomes :
         LET opening_path == Path(quiz_stem(variant), "opening")
             duration == IF Truthy(script.opening_ment)
                         THEN generate_azure_tts(script.opening_ment, o) ELSE 0
         IN  IF duration > 0
             THEN /\ result' = [result EXCEPT !.opening =
                                   [audio_path |-> opening_path, duration |-> duration]]
                  /\ combined_audio' = combined_audio
                                         \o << Piece(opening_path, "opening", duration),
                                               Silent(SHORT_PAUSE_MS, "opening") >>
                  /\ total_duration' = total_duration + duration + SHORT_PAUSE_MS
             ELSE UNCHANGED <<result, combined_audio, total_duration>>
    /\ pc' = "question"
    /\ synth_calls' = Logged(synth_calls, script.opening_ment, base_rate, FALSE)
    /\ UNCHANGED <<variant, script, idx, base_rate, segment_idx, export_measured>>
    /\ UNCHANGED notAudio

\* Lines 1789-1809: question + short pause + options, exported and measured
QuizQuestion ==
    /\ variant \in QuizVariants /\ pc = "question"
    /\ \E oq \in TtsSegmentOutcomes, oo \in TtsSegmentOutcomes :
         LET q_path   == Path(quiz_stem(variant), "question")
             q_audio  == tts_to_segment(script.question_ko, oq)
             opt_audio == tts_to_segment(Join(Concat(Space, Space), script.options_ko), oo)
             question_combined ==
                 << Piece(q_path, "question", q_audio + SHORT_PAUSE_MS + opt_audio) >>
         IN  IF q_audio = RAISED \/ opt_audio = RAISED
             THEN /\ pc' = "raised"
                  /\ synth_calls' =
                        IF q_audio = RAISED
                        THEN LoggedSegment(synth_calls, script.question_ko, base_rate)
                        ELSE LoggedSegment(
                                 LoggedSegment(synth_calls, script.question_ko, base_rate),
                                 Join(Concat(Space, Space), script.options_ko), base_rate)
                  /\ UNCHANGED <<result, combined_audio, total_duration>>
             ELSE \E q_duration \in ExportMeasures(question_combined) :
                    /\ result' = [result EXCEPT !.question_audio =
                                     [audio_path |-> q_path, duration |-> q_duration]]
                    /\ total_duration' = total_duration + q_duration
                    /\ combined_audio' = combined_audio \o question_combined
                    /\ synth_calls' = LoggedSegment(
                           LoggedSegment(synth_calls, script.question_ko, base_rate),
                           Join(Concat(Space, Space), script.options_ko), base_rate)
                    /\ pc' = "silence"
    /\ UNCHANGED <<variant, script, idx, base_rate, segment_idx, export_measured>>
    /\ UNCHANGED notAudio

\* Lines 1814-1816
QuizSilence ==
    /\ variant \in QuizVariants /\ pc = "silence"
    /\ combined_audio' = Append(combined_audio, thinking_silence)
    /\ total_duration' = total_duration + QUIZ_SILENCE_MS
    /\ pc' = "answer"
    /\ UNCHANGED <<synth_calls, variant, script, idx, base_rate, result, segment_idx, export_measured>>
    /\ UNCHANGED notAudio

\* Lines 1821-1839: announcement + short pause + explanation, exported and measured
QuizAnswer ==
    /\ variant \in QuizVariants /\ pc = "answer"
    /\ \E oa \in TtsSegmentOutcomes, oe \in TtsSegmentOutcomes :
         LET a_path     == Path(quiz_stem(variant), "answer")
             ans_audio  == tts_to_segment(answer_announce(script.correct_answer), oa)
             expl_audio == tts_to_segment(script.explanation_ko, oe)
             answer_combined ==
                 << Piece(a_path, "answer", ans_audio + SHORT_PAUSE_MS + expl_audio) >>
         IN  IF ans_audio = RAISED \/ expl_audio = RAISED
             THEN /\ pc' = "raised"
                  /\ synth_calls' =
                        IF ans_audio = RAISED
                        THEN LoggedSegment(synth_calls,
                                           answer_announce(script.correct_answer), base_rate)
                        ELSE LoggedSegment(
                                 LoggedSegment(synth_calls,
                                               answer_announce(script.correct_answer), base_rate),
                                 script.explanation_ko, base_rate)
                  /\ UNCHANGED <<result, combined_audio, total_duration>>
             ELSE \E a_duration \in ExportMeasures(answer_combined) :
                    /\ result' = [result EXCEPT !.answer_audio =
                                     [audio_path |-> a_path, duration |-> a_duration]]
                    /\ total_duration' = total_duration + a_duration
                    /\ combined_audio' = combined_audio \o answer_combined
                    /\ synth_calls' = LoggedSegment(
                           LoggedSegment(synth_calls,
                                         answer_announce(script.correct_answer), base_rate),
                           script.explanation_ko, base_rate)
                    /\ pc' = "closing"
    /\ UNCHANGED <<variant, script, idx, base_rate, segment_idx, export_measured>>
    /\ UNCHANGED notAudio

\* Lines 1844-1861
QuizClosing ==
    /\ variant \in QuizVariants /\ pc = "closing"
    /\ \E o \in TtsOutcomes :
         LET closing_path == Path(quiz_stem(variant), "closing")
             duration == IF Truthy(script.closing_ment)
                         THEN generate_azure_tts(script.closing_ment, o) ELSE 0
         IN  IF duration > 0
             THEN /\ result' = [result EXCEPT !.closing =
                                   [audio_path |-> closing_path, duration |-> duration]]
                  /\ combined_audio' = combined_audio
                                         \o << Silent(SHORT_PAUSE_MS, "closing"),
                                               Piece(closing_path, "closing", duration) >>
                  /\ total_duration' = total_duration + duration + SHORT_PAUSE_MS
             ELSE UNCHANGED <<result, combined_audio, total_duration>>
    /\ pc' = "export"
    /\ synth_calls' = Logged(synth_calls, script.closing_ment, base_rate, FALSE)
    /\ UNCHANGED <<variant, script, idx, base_rate, segment_idx, export_measured>>
    /\ UNCHANGED notAudio

\* Lines 1866-1876: the combined file is always exported
QuizExport ==
    /\ variant \in QuizVariants /\ pc = "export"
    /\ \E actual_duration \in ExportMeasures(combined_audio) :
         /\ export_measured' = actual_duration
         /\ result' = [result EXCEPT
                         !.total_duration = reported_total(actual_duration, total_duration),
                         !.combined_audio = quiz_combined_path(variant)]
    /\ pc' = "returned"
    /\ UNCHANGED <<synth_calls, variant, script, idx, base_rate, combined_audio, total_duration, segment_idx>>
    /\ UNCHANGED notAudio

NextQuiz ==
    \/ QuizStart \/ QuizOpening \/ QuizQuestion \/ QuizSilence
    \/ QuizAnswer \/ QuizClosing \/ QuizExport

(***************************************************************************)
(* _build_video5_deep_dive                                                 *)
(***************************************************************************)
MaxDeepSections == 2

\* text.strip()
Strip(text) == Text(0, text.core, 0)

RECURSIVE SelectTruthy(_)
\* [t for t in texts if t]
SelectTruthy(texts) ==
    IF texts = <<>> THEN <<>>
    ELSE (IF Truthy(texts[1]) THEN <<texts[1]>> ELSE <<>>) \o SelectTruthy(Tail(texts))

\* A section name f"{stem}{suffix}", kept as a pair like the asset paths.
Section(stem, suffix) == <<stem, suffix>>

\* The words, points and labels that name a section are two characters long.
NameAsText(name) == Text(0, 2, 0)

(* The script's top-level keys, each missing (None) or a dict with the
   source-language fields the builder reads. *)
DeepKeys == {"opening", "news", "transition", "exam", "essay", "vocab", "closing"}

DeepScripts ==
    { sc \in [opening    : {None} \cup [hook_ko : {EmptyText, ShortText},
                                        intro_ko : {EmptyText, ShortText}],
              news       : {None} \cup [content_ko : {EmptyText, ShortText}],
              transition : {None} \cup [bridge_ko : {EmptyText, BlankText, ShortText}],
              exam       : {None} \cup [question_ko : {EmptyText, ShortText}],
              essay      : {None} \cup [intro_ko : {EmptyText, ShortText},
                                        paragraphs : {<<>>,
                                            << [label |-> "P1", ko |-> EmptyText] >>,
                                            << [label |-> "P1", ko |-> ShortText] >>}],
              vocab      : {None} \cup [intro_ko : {EmptyText, ShortText},
                                        items : {<<>>, << [word |-> "w1",
                                                          explanation_ko |-> ShortText] >>},
                                        grammar_items : {<<>>, << [point |-> "g1",
                                                          explanation_ko |-> EmptyText] >>}],
              closing    : {None} \cup [summary_ko : {EmptyText, ShortText}]] :
        Cardinality({k \in DeepKeys : sc[k] # None}) <= MaxDeepSections }

\* One call of process_segment(section_name, ko_text, vi_text, voice, rate)
Call(section, ko, seg_rate) == [section |-> section, ko |-> ko, rate |-> seg_rate]

\* Lines 1973-1979
opening_calls(sc) ==
    IF sc.opening = None THEN <<>>
    ELSE << Call(Section("opening", ""),
                 Strip(Concat(Concat(sc.opening.hook_ko, Space), sc.opening.intro_ko)),
                 <<"-", "5", "%">>) >>

\* Lines 1982-1994
news_calls(sc) ==
    IF sc.news = None THEN <<>>
    ELSE << Call(Section("news", ""),
                 Join(Space, SelectTruthy(<<sc.news.content_ko>>)),
                 <<"+", "0", "%">>) >>

\* Lines 1997-2004
transition_calls(sc) ==
    IF sc.transition = None THEN <<>>
    ELSE << Call(Section("transition", ""), sc.transition.bridge_ko, <<"+", "0", "%">>) >>

\* Lines 2007-2019
exam_calls(sc) ==
    IF sc.exam = None THEN <<>>
    ELSE << Call(Section("exam", ""),
                 Join(Space, SelectTruthy(<<sc.exam.question_ko>>)),
                 <<"-", "5", "%">>) >>

RECURSIVE paragraph_calls(_)
\* Lines 2031-2044: analysis_ko is absent, combined_ko = f"{para_ko} ".strip()
paragraph_calls(paragraphs) ==
    IF paragraphs = <<>> THEN <<>>
    ELSE LET para        == paragraphs[1]
             combined_ko == Strip(Concat(Concat(para.ko, Space), EmptyText))
         IN  (IF Truthy(combined_ko)
              THEN << Call(Section("essay_", para.label), combined_ko, <<"+", "0", "%">>) >>
              ELSE <<>>) \o paragraph_calls(Tail(paragraphs))

\* Lines 2022-2044
essay_calls(sc) ==
    IF sc.essay = None THEN <<>>
    ELSE (IF Truthy(sc.essay.intro_ko)
          THEN << Call(Section("essay_", "intro"), sc.essay.intro_ko, <<"+", "0", "%">>) >>
          ELSE <<>>) \o paragraph_calls(sc.essay.paragraphs)

RECURSIVE item_calls(_, _)
(* Lines 2056-2083: combined_ko = f"{word}. {explanation_ko} {example_ko}".strip(),
   example_ko absent; `named` is "word" for items and "point" for grammar items. *)
item_calls(stem, items) ==
    IF items = <<>> THEN <<>>
    ELSE LET item        == items[1]
             name        == IF stem = "vocab_" THEN item.word ELSE item.point
             combined_ko == Strip(Concat(Concat(Concat(NameAsText(name), Text(0, 1, 1)),
                                                item.explanation_ko), Space))
         IN  (IF Truthy(combined_ko)
              THEN << Call(Section(stem, name), combined_ko, <<"+", "0", "%">>) >>
              ELSE <<>>) \o item_calls(stem, Tail(items))

\* Lines 2047-2083
vocab_calls(sc) ==
    IF sc.vocab = None THEN <<>>
    ELSE (IF Truthy(sc.vocab.intro_ko)
          THEN << Call(Section("vocab_", "intro"), sc.vocab.intro_ko, <<"+", "0", "%">>) >>
          ELSE <<>>)
         \o item_calls("vocab_", sc.vocab.items)
         \o item_calls("grammar_", sc.vocab.grammar_items)

\* Lines 2086-2098
closing_calls(sc) ==
    IF sc.closing = None THEN <<>>
    ELSE << Call(Section("closing", ""),
                 Join(Space, SelectTruthy(<<sc.closing.summary_ko>>)),
                 <<"+", "0", "%">>) >>

\* The calls of process_segment in program order (lines 1972-2098)
deep_calls(sc) ==
    opening_calls(sc) \o news_calls(sc) \o transition_calls(sc) \o exam_calls(sc)
        \o essay_calls(sc) \o vocab_calls(sc) \o closing_calls(sc)

\* Rounding up to the next whole second.
RoundSec_ceil(ms) == ((ms + 999) \div 1000) * 1000

(* round(total_duration, 0): to the nearest whole second, a tie going to the
   even one; in milliseconds. *)
RoundSec(ms) ==
    LET q == ms \div 1000
        r == ms % 1000
    IN  IF r < 500 THEN q * 1000
        ELSE IF r > 500 THEN (q + 1) * 1000
        ELSE IF q % 2 = 0 THEN q * 1000 ELSE (q + 1) * 1000

\* The offset once the segment and its pause are appended.
start_offset_after(total_before, duration) == total_before + duration + PART_PAUSE_MS

(* Lines 1948-1955: the timestamp is appended before `total_duration +=
   duration`, so it takes the running total before the segment. *)
start_offset(total_before, duration) == total_before

\* Lines 1903-1914
DeepStart ==
    /\ variant = "video_5" /\ pc = "start"
    /\ IF \A k \in DeepKeys : script[k] = None
       THEN /\ pc' = "returned"
            /\ UNCHANGED result
       ELSE /\ pc' = "sections"
            /\ result' = EmptyResult
    /\ UNCHANGED <<synth_calls, variant, script, idx, base_rate, combined_audio, total_duration,
                   segment_idx, export_measured>>
    /\ UNCHANGED notAudio

\* Lines 1922-1966: one call of process_segment
DeepSegment ==
    /\ variant = "video_5" /\ pc = "sections"
    /\ idx < Len(deep_calls(script))
    /\ \E o \in TtsOutcomes :
         LET call     == deep_calls(script)[idx + 1]
             seg_path == Path("deep_", IdxStr(segment_idx))
             duration == generate_azure_tts(call.ko, o)
         IN  IF IsBlank(call.ko) \/ duration <= 0
             THEN UNCHANGED <<result, combined_audio, total_duration, segment_idx>>
             ELSE /\ result' = [result EXCEPT
                        !.segments = Append(@,
                            [section |-> call.section, ko |-> call.ko,
                             audio_path |-> seg_path, src |-> idx, duration |-> duration]),
                        !.timestamps = Append(@,
                            [section |-> call.section,
                             start_sec |-> RoundSec(start_offset(total_duration, duration))])]
                  /\ combined_audio' = combined_audio
                         \o << Piece(seg_path, IdxStr(idx), duration),
                               Silent(PART_PAUSE_MS, IdxStr(idx)) >>
                  /\ total_duration' = total_duration + duration + PART_PAUSE_MS
                  /\ segment_idx' = segment_idx + 1
    /\ idx' = idx + 1
    /\ synth_calls' = Logged(synth_calls, deep_calls(script)[idx + 1].ko,
                              deep_calls(script)[idx + 1].rate, TRUE)
    /\ UNCHANGED <<variant, script, pc, base_rate, export_measured>>
    /\ UNCHANGED notAudio

(* Lines 2103-2113.  The exported file is not read back; export_measured
   keeps the duration that file has, the length of the audio give or take
   the encoder's rounding. *)
DeepExport ==
    /\ variant = "video_5" /\ pc = "sections"
    /\ idx >= Len(deep_calls(script))
    /\ IF AudioLen(combined_audio) > 0
       THEN \E dr \in EncoderDrift : export_measured' = AudioLen(combined_audio) + dr
       ELSE UNCHANGED export_measured
    /\ result' = [result EXCEPT !.total_duration = total_duration,
                                !.combined_audio = Path("v5_", "deep_dive")]
    /\ pc' = "returned"
    /\ UNCHANGED <<synth_calls, variant, script, idx, base_rate, combined_audio, total_duration, segment_idx>>
    /\ UNCHANGED notAudio

NextDeep == DeepStart \/ DeepSegment \/ DeepExport

(***************************************************************************)
(* should_compress_audio as a call of its own                              *)
(***************************************************************************)
\* Stripped lengths around the budgets times the reading speed.
CompressLengths == {0, 1, 4, 5, 6, 274, 275, 276, 299, 300, 301}

CompressTexts ==
    {Text(l, c, t) : l \in 0..MaxPad, c \in CompressLengths, t \in 0..MaxPad}

\* Values of target_max, in seconds; TIKTOK_MAX_DURATION is the default.
Budgets == {0, 1, TIKTOK_MAX_DURATION, 60}

NoVerdict == [compress |-> FALSE, rate |-> <<>>]

StartCompress ==
    /\ est_text \in CompressTexts
    /\ est_budget \in Budgets
    /\ est_out = NoVerdict
    /\ est_pc = "call"

\* Lines 552-571
CompressCall ==
    /\ est_pc = "call"
    /\ est_out' = should_compress_audio(est_text, est_budget)
    /\ est_pc' = "returned"
    /\ UNCHANGED <<est_text, est_budget>>
    /\ UNCHANGED notEst

NextCompress == CompressCall

(***************************************************************************)
(* generate_azure_tts with its engines and the fallback chain              *)
(***************************************************************************)
\* The file at output_path: whether it exists, and what reading it gives.
File(present, ms, readable) == [present |-> present, ms |-> ms, readable |-> readable]
NoFile == File(FALSE, 0, FALSE)

(* get_audio_duration(file_path): 0.0 for a missing file and for a file
   whose metadata cannot be read (the exception is caught), else the
   duration; in milliseconds. *)
get_audio_duration(f) == IF ~f.present THEN 0 ELSE IF f.readable THEN f.ms ELSE 0

\* A file that an earlier run left at the same deterministic path.
StaleFile == File(TRUE, 700, TRUE)

\* What a synthesis that completed leaves at output_path.
ProducedFiles == {File(TRUE, ms, r) : ms \in Durations, r \in BOOLEAN}

(* What a synthesis that failed leaves at output_path: the file as it was,
   or a truncated file, readable or not. *)
AfterFailure(f) == {f, File(TRUE, 0, FALSE), File(TRUE, 1, TRUE)}

\* The texts of a call and the rates the builders pass.
MidText == Text(1, 60, 1)
TtsTexts == {EmptyText, BlankText, ShortText, MidText}
TtsRates == { <<"-", "1", "0", "%">>, <<"-", "5", "%">>, <<"+", "0", "%">>,
              <<"+", "1", "5", "%">> }

(* Lines 691-708.  A text with Vietnamese in it is "partly" Vietnamese when
   the text with the quoted Vietnamese removed keeps more than 10
   characters, else "mostly".  QuotedLen characters are removed, and the
   whitespace collapsed and stripped. *)
QuotedLen == 12
cleaned_text(text) == Text(0, text.core - QuotedLen, 0)

\* final_rate of lines 712, 756, 760, 765, always from the caller's rate.
fallback_rate_caller(text, rate_arg, use_dynamic_rate) == rate_arg

\* final_rate = _calculate_dynamic_rate(text, rate) if use_dynamic_rate else rate
fallback_rate(text, rate_arg, use_dynamic_rate) ==
    IF use_dynamic_rate THEN _calculate_dynamic_rate(text, rate_arg).value ELSE rate_arg

(* _build_ssml, lines 633-642 and 656: the prosody rate attribute, "%"
   taken out, a "+" put in front when there is no sign, "%" put back. *)
ssml_rate(text, rate_arg, use_dynamic_rate) ==
    LET final_rate == effective_rate(text, rate_arg, use_dynamic_rate)
        rate_value == Remove(final_rate, "%")
    IN  (IF ~StartsWith(rate_value, "+") /\ ~StartsWith(rate_value, "-")
         THEN <<"+">> \o rate_value ELSE rate_value) \o <<"%">>

\* result.reason of the primary engine, or an exception on the way.
PrimaryReasons == {"completed", "canceled", "other", "exception", "config_exception"}

\* Falling back also when the completed synthesis measured nothing.
needs_fallback_on_zero(reason, duration) == reason # "completed" \/ duration = 0

\* Lines 746-766: every reason but SynthesizingAudioCompleted falls back
needs_fallback(reason, duration) == reason # "completed"

StartTts ==
    /\ tts_text \in TtsTexts
    /\ tts_viet \in {"none", "partly", "mostly"}
    /\ tts_viet = "partly" => tts_text = MidText
    /\ tts_viet = "mostly" => ~IsBlank(tts_text)
    /\ tts_rate \in TtsRates
    /\ tts_dynamic \in BOOLEAN
    /\ azure_available \in BOOLEAN
    /\ edge_available \in BOOLEAN
    /\ in_event_loop \in BOOLEAN
    /\ out_file \in {NoFile, StaleFile}
    /\ spoken = tts_text
    /\ primary_reason = "none"
    /\ primary_reqs = <<>>
    /\ secondary_reqs = <<>>
    /\ tts_out = -1
    /\ tts_pc = "call"

\* Lines 688-713
TtsEnter ==
    /\ tts_pc = "call"
    /\ IF IsBlank(tts_text) \/ tts_viet = "mostly"
       THEN /\ tts_out' = 0
            /\ tts_pc' = "returned"
            /\ UNCHANGED <<spoken, primary_reason>>
       ELSE /\ spoken' = IF tts_viet = "partly" THEN cleaned_text(tts_text) ELSE tts_text
            /\ IF ~azure_available
               THEN tts_pc' = "fallback" /\ primary_reason' = "unavailable"
               ELSE tts_pc' = "primary" /\ UNCHANGED primary_reason
            /\ UNCHANGED tts_out
    /\ UNCHANGED <<tts_text, tts_viet, tts_rate, tts_dynamic, azure_available,
                   edge_available, in_event_loop, out_file, primary_reqs, secondary_reqs>>
    /\ UNCHANGED notTts

\* Lines 715-766
TtsPrimary ==
    /\ tts_pc = "primary"
    /\ \E reason \in PrimaryReasons :
         /\ primary_reason' = reason
         /\ primary_reqs' =
               IF reason = "config_exception" THEN primary_reqs
               ELSE Append(primary_reqs,
                           [text |-> spoken,
                            rate |-> ssml_rate(spoken, tts_rate, tts_dynamic)])
         /\ \E f \in (IF reason = "completed" THEN ProducedFiles
                      ELSE IF reason = "config_exception" THEN {out_file}
                      ELSE AfterFailure(out_file)) :
              /\ out_file' = f
              /\ IF needs_fallback(reason, get_audio_duration(f))
                 THEN tts_pc' = "fallback" /\ UNCHANGED tts_out
                 ELSE tts_pc' = "returned" /\ tts_out' = get_audio_duration(f)
    /\ UNCHANGED <<tts_text, tts_viet, tts_rate, tts_dynamic, azure_available,
                   edge_available, in_event_loop, spoken, secondary_reqs>>
    /\ UNCHANGED notTts

(* _fallback_edge_tts_sync (lines 769-780) with _tts_to_file (1350-1373).
   asyncio.run raises RuntimeError when the calling thread already runs an
   event loop, before the coroutine starts; the exception is caught. *)
TtsFallback ==
    /\ tts_pc = "fallback"
    /\ IF ~edge_available \/ in_event_loop
       THEN /\ tts_out' = 0
            /\ UNCHANGED <<out_file, secondary_reqs>>
       ELSE \E saved \in BOOLEAN :
              /\ secondary_reqs' =
                    Append(secondary_reqs,
                           [text  |-> Strip(spoken),
                            rate  |-> fallback_rate(spoken, tts_rate, tts_dynamic),
                            saved |-> saved])
              /\ \E f \in (IF saved THEN ProducedFiles ELSE AfterFailure(out_file)) :
                    /\ out_file' = f
                    /\ tts_out' = get_audio_duration(f)
    /\ tts_pc' = "returned"
    /\ UNCHANGED <<tts_text, tts_viet, tts_rate, tts_dynamic, azure_available,
                   edge_available, in_event_loop, spoken, primary_reason, primary_reqs>>
    /\ UNCHANGED notTts

NextTts == TtsEnter \/ TtsPrimary \/ TtsFallback

(***************************************************************************)
(* generate_tiktok_assets and its call in main                             *)
(***************************************************************************)
\* The builders in the order generate_tiktok_assets awaits them.
AssetBuilders ==
    << "video_1_news", "video_2_outline", "video_3_vocab_quiz",
       "video_4_grammar_quiz", "video_5_deep_dive" >>

QuizBuilders == {"video_3_vocab_quiz", "video_4_grammar_quiz"}

(* How one builder run ends, as the builders above end: returned with every
   piece ("clean"), returned with a piece dropped after a failed synthesis
   ("piece_dropped"), or left by the exception of a failed _tts_to_segment
   ("raised"), which only _build_quiz_audio calls. *)
BuilderEndings(key) ==
    {"clean", "piece_dropped"} \cup (IF key \in QuizBuilders THEN {"raised"} ELSE {})

\* Lines 2159-2168
StartAssets ==
    /\ tiktok_present \in BOOLEAN
    /\ phase4_present \in BOOLEAN
    /\ builds = <<>>
    /\ audio_paths = {}
    /\ assets_idx = 1
    /\ assets_pc = "start"
    /\ run_pc = "assets"

\* Lines 2161-2168: `if not tiktok: return {"audio_paths": {}, "audio_data": {}}`
AssetsEnter ==
    /\ assets_pc = "start"
    /\ assets_pc' = IF tiktok_present THEN "building" ELSE "returned"
    /\ UNCHANGED <<tiktok_present, phase4_present, builds, audio_paths, assets_idx, run_pc>>
    /\ UNCHANGED notAssets

(* Lines 2173-2211: one `await _build_...` with the lines after it.  The
   deep dive is built only with Phase 4 data (line 2206). *)
AssetsBuild ==
    /\ assets_pc = "building"
    /\ assets_idx <= Len(AssetBuilders)
    /\ LET key == AssetBuilders[assets_idx]
       IN  IF key = "video_5_deep_dive" /\ ~phase4_present
           THEN /\ assets_idx' = assets_idx + 1
                /\ UNCHANGED <<builds, audio_paths, assets_pc>>
           ELSE \E ending \in BuilderEndings(key), combined \in BOOLEAN :
                  /\ builds' = Append(builds, [key |-> key, ending |-> ending])
                  /\ IF ending = "raised"
                     THEN /\ assets_pc' = "raised"
                          /\ UNCHANGED <<audio_paths, assets_idx>>
                     ELSE /\ audio_paths' = IF combined THEN audio_paths \cup {key}
                                            ELSE audio_paths
                          /\ assets_idx' = assets_idx + 1
                          /\ UNCHANGED assets_pc
    /\ UNCHANGED <<tiktok_present, phase4_present, run_pc>>
    /\ UNCHANGED notAssets

\* Lines 2216-2219
AssetsReturn ==
    /\ assets_pc = "building"
    /\ assets_idx > Len(AssetBuilders)
    /\ assets_pc' = "returned"
    /\ UNCHANGED <<tiktok_present, phase4_present, builds, audio_paths, assets_idx, run_pc>>
    /\ UNCHANGED notAssets

(* main, lines 2724-2727: asyncio.run(generate_tiktok_assets(...)) with no
   try around it, then `if not audio_result.get("audio_paths"): return`. *)
MainAfterAssets ==
    /\ run_pc = "assets"
    /\ assets_pc \in {"returned", "raised"}
    /\ run_pc' = IF assets_pc = "raised" THEN "crashed"
                 ELSE IF audio_paths = {} THEN "stopped"
                 ELSE "continues"
    /\ UNCHANGED <<tiktok_present, phase4_present, builds, audio_paths, assets_idx, assets_pc>>
    /\ UNCHANGED notAssets

NextAssets == AssetsEnter \/ AssetsBuild \/ AssetsReturn \/ MainAfterAssets

(***************************************************************************)
(* main: audio assets, final_data.json, the render loop                    *)
(***************************************************************************)
(* What the builders inside generate_tiktok_assets can do to the call as   *)
(* main sees it: a quiz builder (the third or the fourth awaited) is left  *)
(* by an exception, or every builder returns and some or none of them has  *)
(* a combined audio.                                                       *)
AssetOutcomes == [raised_at : {0, 3, 4}, paths : BOOLEAN]

\* generate_tiktok_assets without the test of lines 2162-2164.
generate_tiktok_assets_no_script_check(tiktok, deep, o) ==
    IF o.raised_at > 0 THEN [builders |-> o.raised_at, audio_result |-> "raised"]
    ELSE [builders |-> IF deep THEN 5 ELSE 4,
          audio_result |-> IF o.paths THEN "paths" ELSE "empty"]

(* generate_tiktok_assets (lines 2161-2219) as main sees it: how many
   builders were awaited and whether audio_paths came back empty. *)
generate_tiktok_assets(tiktok, deep, o) ==
    IF ~tiktok THEN [builders |-> 0, audio_result |-> "empty"]       \* 2162-2164
    ELSE IF o.raised_at > 0 THEN [builders |-> o.raised_at, audio_result |-> "raised"]
    ELSE [builders |-> IF deep THEN 5 ELSE 4,                        \* 2206
          audio_result |-> IF o.paths THEN "paths" ELSE "empty"]

(* main at line 2724; render_all_videos is not called yet.  final_data.json
   may be there from an earlier run. *)
StartMain ==
    /\ main_pc = "assets"
    /\ data_p3_tiktok \in BOOLEAN
    /\ builders_run = 0
    /\ audio_result = "none"
    /\ data_written = FALSE
    /\ include_deep_dive \in BOOLEAN
    /\ json_exists \in BOOLEAN
    /\ entry_idx = 0
    /\ rendered = <<>>
    /\ failed = <<>>
    /\ attempts = <<>>
    /\ render_pc = "idle"

(* Line 2724: asyncio.run(generate_tiktok_assets(data_p3, ASSETS_DIR,
   data_p4 if include_deep_dive else None)), with no try around it. *)
MainAssets ==
    /\ main_pc = "assets"
    /\ \E o \in AssetOutcomes, deep \in (IF include_deep_dive THEN BOOLEAN ELSE {FALSE}) :
         LET r == generate_tiktok_assets(data_p3_tiktok, deep, o)
         IN  /\ builders_run' = r.builders
             /\ audio_result' = r.audio_result
             /\ main_pc' = IF r.audio_result = "raised" THEN "crashed" ELSE "check"
    /\ UNCHANGED <<data_p3_tiktok, data_written>>
    /\ UNCHANGED <<renderVars, rateVars, audioVars, estVars, ttsVars, assetsVars, schedVars, labelVars>>

\* Lines 2725-2727: `if not audio_result or not audio_result.get("audio_paths"): return`
MainCheck ==
    /\ main_pc = "check"
    /\ main_pc' = IF audio_result = "paths" THEN "data" ELSE "returned_early"
    /\ UNCHANGED <<data_p3_tiktok, builders_run, audio_result, data_written>>
    /\ UNCHANGED <<renderVars, rateVars, audioVars, estVars, ttsVars, assetsVars, schedVars, labelVars>>

(* Lines 2732-2808: the Word file, the payload, and final_data.json written
   with open(json_path, "w"); an exception on the way leaves main. *)
MainWriteData ==
    /\ main_pc = "data"
    /\ \E ok \in BOOLEAN :
         IF ok
         THEN /\ data_written' = TRUE
              /\ json_exists' = TRUE
              /\ main_pc' = "render"
         ELSE /\ main_pc' = "crashed"
              /\ UNCHANGED <<data_written, json_exists>>
    /\ UNCHANGED <<data_p3_tiktok, builders_run, audio_result>>
    /\ UNCHANGED <<include_deep_dive, entry_idx, rendered, failed, attempts, render_pc>>
    /\ UNCHANGED <<rateVars, audioVars, estVars, ttsVars, assetsVars, schedVars, labelVars>>

\* Line 2821: render_all_videos(json_path, include_deep_dive) is entered (2601-2609).
MainRender ==
    /\ main_pc = "render"
    /\ main_pc' = "rendering"
    /\ render_pc' = "loop"
    /\ entry_idx' = 1
    /\ rendered' = <<>>
    /\ failed' = <<>>
    /\ UNCHANGED <<data_p3_tiktok, builders_run, audio_result, data_written>>
    /\ UNCHANGED <<include_deep_dive, json_exists, attempts>>
    /\ UNCHANGED <<rateVars, audioVars, estVars, ttsVars, assetsVars, schedVars, labelVars>>

\* main, and the render loop it calls
NextMain == MainAssets \/ MainCheck \/ MainWriteData \/ MainRender \/ NextRender

(***************************************************************************)
(* The synthesis calls of one builder, as the event loop schedules them    *)
(***************************************************************************)
MaxPieces == 3

(* The news, outline and quiz builders call generate_azure_tts in the
   coroutine itself (lines 1460, 1490, 1511, ...); process_segment of the
   deep dive awaits generate_azure_tts_async, which runs the same function
   on a thread of a ThreadPoolExecutor (lines 797-802, 1934). *)
CallKinds == {"direct", "executor"}

\* A builder that goes on without waiting for the call it made.
resume_allowed_no_wait(n, done) == TRUE

(* `duration = generate_azure_tts(...)` and `duration = await
   loop.run_in_executor(executor, func)`: the builder goes on to the next
   statement only with the call's return value. *)
resume_allowed(n, done) == n \in done

StartSched ==
    /\ call_kind \in CallKinds
    /\ piece_texts \in UNION { [1..k -> BOOLEAN] : k \in 1..MaxPieces }
    /\ piece_n = 1
    /\ co_pc = "ready"
    /\ in_flight = {}
    /\ started = <<>>
    /\ future_done = {}
    /\ known = {}

\* `if not ko_text: continue` (1484, 1635), `if not ko_text or not ko_text.strip(): return` (1925-1926)
SchedSkip ==
    /\ co_pc = "ready"
    /\ piece_n <= Len(piece_texts)
    /\ ~piece_texts[piece_n]
    /\ piece_n' = piece_n + 1
    /\ UNCHANGED <<call_kind, piece_texts, co_pc, in_flight, started, future_done, known>>
    /\ UNCHANGED notSched

\* The call is made: lines 1490, 1641; 1934 with 797-802
SchedCall ==
    /\ co_pc = "ready"
    /\ piece_n <= Len(piece_texts)
    /\ piece_texts[piece_n]
    /\ in_flight' = in_flight \cup {piece_n}
    /\ started' = Append(started, piece_n)
    /\ co_pc' = "awaiting"
    /\ UNCHANGED <<call_kind, piece_texts, piece_n, future_done, known>>
    /\ UNCHANGED notSched

(* generate_azure_tts returns its measured duration (lines 665-766), on the
   builder's own thread or on the executor's. *)
SynthFinish ==
    /\ \E n \in in_flight :
         /\ in_flight' = in_flight \ {n}
         /\ future_done' = future_done \cup {n}
    /\ UNCHANGED <<call_kind, piece_texts, piece_n, co_pc, started, known>>
    /\ UNCHANGED notSched

\* The builder has the duration and goes on: lines 1492-1504, 1936-1966
SchedResume ==
    /\ co_pc = "awaiting"
    /\ resume_allowed(piece_n, future_done)
    /\ known' = IF piece_n \in future_done THEN known \cup {piece_n} ELSE known
    /\ piece_n' = piece_n + 1
    /\ co_pc' = "ready"
    /\ UNCHANGED <<call_kind, piece_texts, in_flight, started, future_done>>
    /\ UNCHANGED notSched

\* The builder returns after its last piece.
SchedReturn ==
    /\ co_pc = "ready"
    /\ piece_n > Len(piece_texts)
    /\ co_pc' = "done"
    /\ UNCHANGED <<call_kind, piece_texts, piece_n, in_flight, started, future_done, known>>
    /\ UNCHANGED notSched

NextSched == SchedSkip \/ SchedCall \/ SynthFinish \/ SchedResume \/ SchedReturn

(***************************************************************************)
(* _get_section_label                                                      *)
(***************************************************************************)
MaxLabelLen == 3

(* The dict `labels` in its order (lines 2118-2126); the keys are spelled
   out character by character, the labels are written without their
   emoji and diacritics. *)
labels ==
    << [key |-> <<"o", "p", "e", "n", "i", "n", "g">>,
        label |-> "Intro"],
       [key |-> <<"n", "e", "w", "s">>,
        label |-> "Tin tuc"],
       [key |-> <<"t", "r", "a", "n", "s", "i", "t", "i", "o", "n">>,
        label |-> "Chuyen tiep"],
       [key |-> <<"e", "x", "a", "m">>,
        label |-> "De thi TOPIK 54"],
       [key |-> <<"e", "s", "s", "a", "y", "_", "i", "n", "t", "r", "o">>,
        label |-> "Van mau"],
       [key |-> <<"v", "o", "c", "a", "b", "_", "i", "n", "t", "r", "o">>,
        label |-> "Tu vung & Ngu phap"],
       [key |-> <<"c", "l", "o", "s", "i", "n", "g">>,
        label |-> "Ket thuc"] >>

\* The part of a tag that comes from the script: a paragraph label, a word, a point.
TagNames == SeqsUpTo({"i", "P", "1"}, MaxLabelLen)

\* The stems of the tags process_segment is called with (lines 1979-2098).
TagStems ==
    { labels[i].key : i \in 1..Len(labels) }
        \cup { <<"e", "s", "s", "a", "y", "_">>, <<"v", "o", "c", "a", "b", "_">>, <<"g", "r", "a", "m", "m", "a", "r", "_">> }

SectionTags == { stem \o name : stem \in TagStems, name \in TagNames }

TableLabel(label) == [label |-> label, raw |-> <<>>]
RawTag(section) == [label |-> "", raw |-> section]

\* Lines 2127-2131: the first key the section starts with, else the section itself
_get_section_label(section) ==
    LET hits == SelectSeq(labels, LAMBDA e : IsPrefix(e.key, section))
    IN  IF hits # <<>> THEN TableLabel(hits[1].label) ELSE RawTag(section)

StartLabel ==
    /\ label_section \in SectionTags
    /\ label_out = RawTag(<<>>)
    /\ label_pc = "call"

\* Line 1952: "label": _get_section_label(section_name)
LabelCall ==
    /\ label_pc = "call"
    /\ label_out' = _get_section_label(label_section)
    /\ label_pc' = "returned"
    /\ UNCHANGED label_section
    /\ UNCHANGED notLabel

NextLabel == LabelCall

(***************************************************************************)
(* The builders' start states                                              *)
(***************************************************************************)
StartAudio ==
    /\ \/ variant = "video_1" /\ script \in NewsScripts
       \/ variant = "video_2" /\ script \in OutlineScripts
       \/ variant \in QuizVariants /\ script \in QuizScripts
       \/ variant = "video_5" /\ script \in DeepScripts
    /\ pc = "start"
    /\ idx = 0
    /\ base_rate = <<>>
    /\ result = EmptyResult
    /\ combined_audio = <<>>
    /\ total_duration = 0
    /\ segment_idx = 0
    /\ synth_calls = <<>>
    /\ export_measured = -1

NextAudio == NextNews \/ NextOutline \/ NextQuiz \/ NextDeep

(***************************************************************************)
(* Specifications                                                          *)
(***************************************************************************)
IdleRender ==
    /\ include_deep_dive = FALSE
    /\ json_exists = FALSE
    /\ entry_idx = 0
    /\ rendered = <<>>
    /\ failed = <<>>
    /\ attempts = <<>>
    /\ render_pc = "idle"

IdleRate ==
    /\ rate_text = [lead |-> 0, core |-> 0, trail |-> 0]
    /\ rate_base = <<>>
    /\ rate_out = NoResult
    /\ rate_pc = "idle"

IdleAudio ==
    /\ variant = "none"
    /\ script = None
    /\ pc = "idle"
    /\ idx = 0
    /\ base_rate = <<>>
    /\ result = EmptyResult
    /\ combined_audio = <<>>
    /\ total_duration = 0
    /\ segment_idx = 0
    /\ synth_calls = <<>>
    /\ export_measured = -1

IdleCompress ==
    /\ est_text = EmptyText
    /\ est_budget = 0
    /\ est_out = NoVerdict
    /\ est_pc = "idle"

IdleTts ==
    /\ tts_text = EmptyText
    /\ tts_viet = "none"
    /\ tts_rate = <<>>
    /\ tts_dynamic = FALSE
    /\ azure_available = FALSE
    /\ edge_available = FALSE
    /\ in_event_loop = FALSE
    /\ out_file = NoFile
    /\ spoken = EmptyText
    /\ primary_reason = "none"
    /\ primary_reqs = <<>>
    /\ secondary_reqs = <<>>
    /\ tts_out = -1
    /\ tts_pc = "idle"

IdleAssets ==
    /\ tiktok_present = FALSE
    /\ phase4_present = FALSE
    /\ builds = <<>>
    /\ audio_paths = {}
    /\ assets_idx = 1
    /\ assets_pc = "idle"
    /\ run_pc = "idle"

IdleMain ==
    /\ main_pc = "idle"
    /\ data_p3_tiktok = FALSE
    /\ builders_run = 0
    /\ audio_result = "none"
    /\ data_written = FALSE

IdleSched ==
    /\ call_kind = "none"
    /\ piece_texts = <<>>
    /\ piece_n = 1
    /\ co_pc = "idle"
    /\ in_flight = {}
    /\ started = <<>>
    /\ future_done = {}
    /\ known = {}

IdleLabel ==
    /\ label_section = <<>>
    /\ label_out = RawTag(<<>>)
    /\ label_pc = "idle"

InitRender == StartRender /\ IdleRate /\ IdleAudio /\ IdleCompress /\ IdleTts /\ IdleAssets /\ IdleMain /\ IdleSched /\ IdleLabel
InitRate == StartRate /\ IdleRender /\ IdleAudio /\ IdleCompress /\ IdleTts /\ IdleAssets /\ IdleMain /\ IdleSched /\ IdleLabel
InitAudio == StartAudio /\ IdleRender /\ IdleRate /\ IdleCompress /\ IdleTts /\ IdleAssets /\ IdleMain /\ IdleSched /\ IdleLabel
InitCompress == StartCompress /\ IdleRender /\ IdleRate /\ IdleAudio /\ IdleTts /\ IdleAssets /\ IdleMain /\ IdleSched /\ IdleLabel
InitTts == StartTts /\ IdleRender /\ IdleRate /\ IdleAudio /\ IdleCompress /\ IdleAssets /\ IdleMain /\ IdleSched /\ IdleLabel
InitAssets == StartAssets /\ IdleRender /\ IdleRate /\ IdleAudio /\ IdleCompress /\ IdleTts /\ IdleMain /\ IdleSched /\ IdleLabel

(* A run is main, or render_all_videos called on its own with a json_path. *)
InitMain ==
    /\ StartMain \/ (StartRender /\ IdleMain)
    /\ IdleRate /\ IdleAudio /\ IdleCompress /\ IdleTts /\ IdleAssets /\ IdleSched /\ IdleLabel

InitSched ==
    /\ StartSched
    /\ IdleRender /\ IdleRate /\ IdleAudio /\ IdleCompress /\ IdleTts /\ IdleAssets /\ IdleMain /\ IdleLabel

InitLabel ==
    /\ StartLabel
    /\ IdleRender /\ IdleRate /\ IdleAudio /\ IdleCompress /\ IdleTts /\ IdleAssets /\ IdleMain
    /\ IdleSched

SpecRender == InitRender /\ [][NextRender]_vars
SpecRate == InitRate /\ [][NextRate]_vars
SpecAudio == InitAudio /\ [][NextAudio]_vars
SpecCompress == InitCompress /\ [][NextCompress]_vars
SpecTts == InitTts /\ [][NextTts]_vars
SpecAssets == InitAssets /\ [][NextAssets]_vars
SpecMain == InitMain /\ [][NextMain]_vars
SpecSched == InitSched /\ [][NextSched]_vars
SpecLabel == InitLabel /\ [][NextLabel]_vars

(***************************************************************************)
(* Claims about the render loop (checked under SpecRender)                 *)
(***************************************************************************)
\* What the specification calls a successful engine invocation.
InvocationSucceeded(a) == a.invoked /\ a.kind = "exit_zero" /\ a.out

\* Entry i of the manifest was attempted and its invocation succeeded.
JobSucceeded(i) == \E a \in Range(attempts) : a.idx = i /\ InvocationSucceeded(a)

(* C1: whatever subset of the jobs fails (exception, non-zero exit, missing
   output), no exception leaves render_all_videos, and once it has returned
   every manifest entry is in exactly one of `rendered` and `failed`:
   `rendered` holds exactly the jobs whose invocation succeeded and `failed`
   exactly the others, each once. *)
C1_PartialSuccess ==
    /\ render_pc # "escaped"
    /\ render_pc = "returned" =>
         LET m == manifest_to_use(include_deep_dive) IN
         /\ Len(rendered) + Len(failed) = Len(m)
         /\ \A i \in 1..Len(m) :
              LET inRendered == video_path(m[i]) \in Range(rendered)
                  inFailed   == m[i].composition \in Range(failed)
              IN  /\ inRendered # inFailed
                  /\ inRendered <=> JobSucceeded(i)

\* Five jobs, job 2 fails with an exception and job 4 leaves no output file.
C1_Witness ==
    /\ render_pc = "returned"
    /\ include_deep_dive
    /\ attempts[2].kind = "exception"
    /\ attempts[4].kind = "exit_zero" /\ ~attempts[4].out
    /\ rendered = <<"V1_News", "V3_Vocab", "V5_DeepDive">>
    /\ failed = <<"TikTok-WritingCoach", "TikTok-GrammarQuiz">>

(* C2: each call of render_single_video records its job as succeeded exactly
   when the engine was invoked, raised nothing, exited with status zero and
   left the output file; every other outcome appends that one job to
   `failed`; in both cases what was recorded before stays as it was. *)
C2_OutcomeRecordedPerJob ==
    [][attempts' # attempts =>
         LET a     == attempts'[Len(attempts')]
             entry == manifest_to_use(include_deep_dive)[a.idx]
         IN  IF InvocationSucceeded(a)
             THEN rendered' = Append(rendered, video_path(entry)) /\ failed' = failed
             ELSE failed' = Append(failed, entry.composition) /\ rendered' = rendered
      ]_vars

\* A job whose process exited with status zero without leaving its output
\* file was recorded as failed after an earlier job had succeeded.
C2_Witness ==
    /\ Len(attempts) = 2
    /\ InvocationSucceeded(attempts[1])
    /\ attempts[2].invoked /\ attempts[2].kind = "exit_zero" /\ ~attempts[2].out
    /\ rendered = <<"V1_News">>
    /\ failed = <<"TikTok-WritingCoach">>

(* C3: the manifest entries are attempted in manifest order, each exactly
   once: the k-th call of render_single_video is for entry k, whatever the
   earlier calls returned, and the function returns after one call per
   entry. *)
C3_ManifestOrderOnce ==
    /\ Len(attempts) <= Len(manifest_to_use(include_deep_dive))
    /\ \A k \in 1..Len(attempts) : attempts[k].idx = k
    /\ render_pc = "returned" =>
         Len(attempts) = Len(manifest_to_use(include_deep_dive))

\* The first entry failed and all five entries were still attempted.
C3_Witness ==
    /\ render_pc = "returned"
    /\ Len(attempts) = 5
    /\ attempts[1].kind = "exit_nonzero"
    /\ InvocationSucceeded(attempts[2])


(***************************************************************************)
(* Claims about the rate controller (checked under SpecRate)               *)
(***************************************************************************)
\* A signed integer percentage: a sign, decimal digits, "%".
IsSignedIntPct(s) ==
    /\ Len(s) >= 3
    /\ s[1] \in {"+", "-"}
    /\ s[Len(s)] = "%"
    /\ \A i \in 2..(Len(s) - 1) : IsDigit(s[i])

\* The integer a signed integer percentage denotes.
PctValue(s) ==
    LET n == DigitsToNat(SubSeq(s, 2, Len(s) - 1), 0)
    IN  IF s[1] = "-" THEN 0 - n ELSE n

\* An integer percentage with the sign or the "%" possibly left out.
IsIntPct(s) ==
    LET t    == IF Len(s) > 0 /\ s[Len(s)] = "%" THEN SubSeq(s, 1, Len(s) - 1) ELSE s
        body == IF StartsWith(t, "+") \/ StartsWith(t, "-") THEN Tail(t) ELSE t
    IN  Len(body) > 0 /\ \A i \in 1..Len(body) : IsDigit(body[i])

\* The tier bonus of section 4.1 for a length of n characters.
TierBonus(n) ==
    IF n <= 50 THEN 0
    ELSE IF n <= 150 THEN 10
    ELSE IF n <= 300 THEN 15
    ELSE IF n <= 500 THEN 20
    ELSE 25

\* The rate section 4.1 prescribes for a length n and a base value b.
PrescribedRate(n, b) ==
    LET sum == b + TierBonus(n)
        c   == IF sum > 50 THEN 50 ELSE IF sum < -50 THEN -50 ELSE sum
    IN  IF c >= 0 THEN <<"+">> \o NatToStr(c) \o <<"%">>
        ELSE <<"-">> \o NatToStr(0 - c) \o <<"%">>

(* C8: for every text length and every base rate that is a signed integer
   percentage in [-100%, +100%], the call returns a signed percentage whose
   value lies in [-50, +50]. *)
C8_RateClamp ==
    (/\ rate_pc \in {"returned", "raised"}
     /\ IsSignedIntPct(rate_base)
     /\ PctValue(rate_base) >= -100 /\ PctValue(rate_base) <= 100)
    => /\ rate_pc = "returned"
       /\ IsSignedIntPct(rate_out.value)
       /\ PctValue(rate_out.value) >= -50
       /\ PctValue(rate_out.value) <= 50

\* Base "-100%" on a short text is clamped to "-50%".
C8_Witness ==
    /\ rate_pc = "returned"
    /\ rate_base = <<"-", "1", "0", "0", "%">>
    /\ rate_out.value = <<"-", "5", "0", "%">>

(* C9 as stated: the result is the prescribed rate for len(text), the length
   of the whole text; a 50-character text with base "+0%" gives "+0%", a
   51-character text "+10%", and "-10%" with 200 characters "+5%". *)
C9_TierByTextLen ==
    (rate_pc \in {"returned", "raised"} /\ IsSignedIntPct(rate_base))
    => /\ rate_pc = "returned"
       /\ rate_out.value = PrescribedRate(TextLen(rate_text), PctValue(rate_base))
       /\ (TextLen(rate_text) = 50 /\ rate_base = <<"+", "0", "%">>)
             => rate_out.value = <<"+", "0", "%">>
       /\ (TextLen(rate_text) = 51 /\ rate_base = <<"+", "0", "%">>)
             => rate_out.value = <<"+", "1", "0", "%">>
       /\ (TextLen(rate_text) = 200 /\ rate_base = <<"-", "1", "0", "%">>)
             => rate_out.value = <<"+", "5", "%">>

(* C9 as amended: the result is the prescribed rate for len(text.strip()),
   the length of the text without its leading and trailing whitespace; with
   50 such characters and base "+0%" it is "+0%", with 51 "+10%", and with
   200 and base "-10%" it is "+5%". *)
C9_TierByStrippedLen ==
    (rate_pc \in {"returned", "raised"} /\ IsSignedIntPct(rate_base))
    => /\ rate_pc = "returned"
       /\ rate_out.value = PrescribedRate(StrippedLen(rate_text), PctValue(rate_base))
       /\ (StrippedLen(rate_text) = 50 /\ rate_base = <<"+", "0", "%">>)
             => rate_out.value = <<"+", "0", "%">>
       /\ (StrippedLen(rate_text) = 51 /\ rate_base = <<"+", "0", "%">>)
             => rate_out.value = <<"+", "1", "0", "%">>
       /\ (StrippedLen(rate_text) = 200 /\ rate_base = <<"-", "1", "0", "%">>)
             => rate_out.value = <<"+", "5", "%">>

\* A 51-character text made of 50 characters and one trailing blank, with
\* base "+0%", gets "+0%".
C9_Witness ==
    /\ rate_pc = "returned"
    /\ rate_text = [lead |-> 0, core |-> 50, trail |-> 1]
    /\ rate_base = <<"+", "0", "%">>
    /\ rate_out.value = <<"+", "0", "%">>

(* C10: the call is total: for every text and every base-rate string it
   returns a rate without raising, and a base rate that is not an integer
   percentage counts as 0. *)
C10_TotalMalformedIsZero ==
    rate_pc \in {"returned", "raised"}
    => /\ rate_pc = "returned"
       /\ ~IsIntPct(rate_base)
             => rate_out.value = PrescribedRate(StrippedLen(rate_text), 0)

(***************************************************************************)
(* Claims about the audio builders (checked under SpecAudio)               *)
(***************************************************************************)
(* C4: every variant that exported a combined file reports as its
   total_duration the duration that file has when it is read back, whatever
   the running sum of segment durations and pauses is. *)
C4_MeasuredTotalReported ==
    (pc = "returned" /\ export_measured # -1)
    => result.total_duration = export_measured

\* The tokens of a combined audio without their lengths.
Shape(token) == [kind |-> token.kind, path |-> token.path, src |-> token.src]
Shapes(audio) == [i \in 1..Len(audio) |-> Shape(audio[i])]

\* The layout of a quiz variant's combined audio, given what was produced.
QuizLayout(stem, res) ==
    (IF res.opening # None
     THEN << Shape(Piece(Path(stem, "opening"), "opening", 0)),
             Shape(Silent(0, "opening")) >>
     ELSE <<>>)
    \o << Shape(Piece(Path(stem, "question"), "question", 0)),
          Shape(Silent(0, "thinking")),
          Shape(Piece(Path(stem, "answer"), "answer", 0)) >>
    \o (IF res.closing # None
        THEN << Shape(Silent(0, "closing")),
                Shape(Piece(Path(stem, "closing"), "closing", 0)) >>
        ELSE <<>>)

\* The audio files of a combined audio and the thinking silence, in order.
Blocks(audio) ==
    LET kept == SelectSeq(audio, LAMBDA t : t.kind = "piece" \/ t.src = "thinking")
    IN  [i \in 1..Len(kept) |-> kept[i].src]

(* C5: a quiz variant with a non-empty question whose builder got to the
   export has as combined audio the opening (if produced), the question
   block, the thinking silence, the answer block and the closing (if
   produced), in that order, joined by the 300 ms pauses after the opening
   and before the closing and by nothing else; the thinking silence is
   4000 ms long and silence_duration is 4.0 s, with and without
   compression. *)
C5_QuizOrderAndSilence ==
    (variant \in QuizVariants /\ pc \in {"export", "returned"} /\ Truthy(script.question_ko))
    => /\ Shapes(combined_audio) = QuizLayout(quiz_stem(variant), result)
       /\ Blocks(combined_audio) =
             (IF result.opening # None THEN <<"opening">> ELSE <<>>)
             \o <<"question", "thinking", "answer">>
             \o (IF result.closing # None THEN <<"closing">> ELSE <<>>)
       /\ \A i \in 1..Len(combined_audio) :
             combined_audio[i].kind = "silent"
             => combined_audio[i].ms =
                   (IF combined_audio[i].src = "thinking" THEN 4000 ELSE 300)
       /\ result.silence_duration = 4000

\* A compressed quiz with opening and closing produced: five audio units
\* and a 4000 ms silence after the question block.
C5_Witness ==
    /\ variant = "video_3" /\ pc = "returned"
    /\ result.ssml_compressed
    /\ result.opening # None /\ result.closing # None
    /\ Len(combined_audio) = 7
    /\ combined_audio[3].src = "question"
    /\ combined_audio[4] = Silent(4000, "thinking")
    /\ combined_audio[5].src = "answer"

(* C6: in a deep-dive result with at least one recorded segment the
   start_sec of the timestamps never decreases along the list and the last
   start_sec is strictly less than the reported total_duration. *)
C6_TimestampsMonotone ==
    (variant = "video_5" /\ pc = "returned" /\ Len(result.segments) >= 1)
    => /\ Len(result.timestamps) = Len(result.segments)
       /\ \A i \in 1..Len(result.timestamps), j \in 1..Len(result.timestamps) :
             i < j => result.timestamps[i].start_sec <= result.timestamps[j].start_sec
       /\ result.timestamps[Len(result.timestamps)].start_sec < result.total_duration

\* Three segments; the running total of 1.5 s before the second one is
\* rounded up to a start of 2 s, and the last start stays below the total.
C6_Witness ==
    /\ variant = "video_5" /\ pc = "returned"
    /\ Len(result.timestamps) = 3
    /\ result.timestamps[1].start_sec = 0
    /\ result.timestamps[2].start_sec = 2000
    /\ result.timestamps[3].start_sec = 2000
    /\ result.total_duration = 2502

\* The builder is about to process a content part whose text is blank.
AtBlankPart ==
    \/ /\ variant = "video_1" /\ pc = "segments"
       /\ idx < Len(news_segments(script))
       /\ IsBlank(news_segments(script)[idx + 1].ko)
    \/ /\ variant = "video_2" /\ pc = "parts"
       /\ idx < Len(outline_parts(script))
       /\ IsBlank(outline_parts(script)[idx + 1].ko)
    \/ /\ variant = "video_5" /\ pc = "sections"
       /\ idx < Len(deep_calls(script))
       /\ IsBlank(deep_calls(script)[idx + 1].ko)

(* C7: the step of a builder over a content part whose text is empty or
   only whitespace leaves the segments/parts list, the combined audio
   (audio and pauses), the running total and the timestamps as they were;
   and no recorded segment or part has a blank text. *)
C7_BlankPartSkipped ==
    /\ [][ AtBlankPart
           => /\ result'.segments = result.segments
              /\ result'.parts = result.parts
              /\ result'.timestamps = result.timestamps
              /\ combined_audio' = combined_audio
              /\ total_duration' = total_duration
              /\ idx' = idx + 1 ]_vars
    /\ [](/\ \A i \in 1..Len(result.segments) : ~IsBlank(result.segments[i].ko)
          /\ \A i \in 1..Len(result.parts) : ~IsBlank(result.parts[i].ko))

\* A news script whose first segment is one blank: the loop went past it
\* with nothing recorded and then recorded the second segment alone.
C7_Witness ==
    /\ variant = "video_1" /\ pc = "returned"
    /\ Len(script.segments) = 2
    /\ script.segments[1].ko = BlankText
    /\ Len(result.segments) = 1
    /\ result.segments[1].src = 1
    /\ \A i \in 1..Len(combined_audio) : combined_audio[i].src # "0"

(***************************************************************************)
(* Claims about should_compress_audio (checked under SpecCompress)         *)
(***************************************************************************)
(* C11 as stated: the call returns (True, "+15%") exactly when the number
   of characters of the text divided by 5 is strictly greater than the
   budget, and (False, "+0%") otherwise. *)
C11_CompressByCharCount ==
    est_pc = "returned"
    => IF TextLen(est_text) > est_budget * 5
       THEN est_out = [compress |-> TRUE, rate |-> <<"+", "1", "5", "%">>]
       ELSE est_out = [compress |-> FALSE, rate |-> <<"+", "0", "%">>]

(* C11 as amended: the call returns (True, "+15%") exactly when the number
   of characters of the text without its leading and trailing whitespace,
   divided by 5, is strictly greater than the budget, and (False, "+0%")
   otherwise, also when the estimate equals the budget and when the text is
   empty. *)
C11_CompressByStrippedCount ==
    est_pc = "returned"
    => /\ IF StrippedLen(est_text) > est_budget * 5
          THEN est_out = [compress |-> TRUE, rate |-> <<"+", "1", "5", "%">>]
          ELSE est_out = [compress |-> FALSE, rate |-> <<"+", "0", "%">>]
       /\ StrippedLen(est_text) = est_budget * 5 => ~est_out.compress
       /\ TextLen(est_text) = 0 => ~est_out.compress

\* 275 characters and a trailing blank against the budget of 55 s: the
\* estimate equals the budget and the text is not compressed.
C11_Witness ==
    /\ est_pc = "returned"
    /\ est_text = [lead |-> 0, core |-> 275, trail |-> 1]
    /\ est_budget = 55
    /\ est_out = [compress |-> FALSE, rate |-> <<"+", "0", "%">>]

(***************************************************************************)
(* Claims about the rates of the builders' synthesis requests (SpecAudio)  *)
(***************************************************************************)
(* C12: in a short-form variant flagged for compression every synthesis
   request is made at exactly the compression rate "+15%", with no length
   tier added to it; in a variant that is not flagged every request is made
   at the rate the rate controller gives for its text and the variant's
   configured rate. *)
C12_FlatRateWhenCompressed ==
    (variant \in {"video_1", "video_2", "video_3", "video_4"} /\ pc # "start")
    => \A i \in 1..Len(synth_calls) :
          IF result.ssml_compressed
          THEN synth_calls[i].effective = <<"+", "1", "5", "%">>
          ELSE synth_calls[i].effective =
                  _calculate_dynamic_rate(synth_calls[i].text, VOICE_CFG_rate(variant)).value

(***************************************************************************)
(* Claims about generate_azure_tts (checked under SpecTts)                 *)
(***************************************************************************)
\* The primary engine was not available or its attempt did not complete.
PrimaryFailed ==
    primary_reason \in {"unavailable", "canceled", "other", "exception", "config_exception"}

(* C13: a call with non-empty text whose primary engine failed (not
   available, exception, cancelled, any result but completed) attempts the
   secondary engine, the secondary engine being installed, and returns a
   duration instead of raising. *)
C13_FailureFallsBackNoRaise ==
    (tts_pc = "returned" /\ Truthy(tts_text) /\ PrimaryFailed /\ edge_available)
    => /\ Len(secondary_reqs) = 1
       /\ tts_out >= 0

\* The rate section 4.3 calls effective: the controller's rate for the text
\* when use_dynamic_rate is true, else the caller's rate.
EffectiveRate ==
    IF tts_dynamic
    THEN PrescribedRate(StrippedLen(spoken), PctValue(tts_rate))
    ELSE tts_rate

(* C14: every request to the secondary engine carries the effective rate,
   the dynamic rate of the text when use_dynamic_rate is true and the
   caller's rate when it is false, and the text of the call (without the
   Vietnamese taken out before either engine); when the primary engine was
   given a request, it was given the same rate and the same text up to the
   surrounding whitespace. *)
C14_FallbackSameRateAndText ==
    \A i \in 1..Len(secondary_reqs) :
       /\ secondary_reqs[i].rate = EffectiveRate
       /\ secondary_reqs[i].text = Strip(spoken)
       /\ \A j \in 1..Len(primary_reqs) :
             /\ primary_reqs[j].rate = secondary_reqs[i].rate
             /\ Strip(primary_reqs[j].text) = secondary_reqs[i].text

\* A 60-character text at "-10%" with the dynamic rate: the cancelled
\* primary and the secondary were both asked for "+0%".
C14_Witness ==
    /\ tts_pc = "returned"
    /\ tts_text = MidText /\ tts_viet = "none"
    /\ tts_dynamic /\ tts_rate = <<"-", "1", "0", "%">>
    /\ primary_reason = "canceled"
    /\ Len(primary_reqs) = 1 /\ Len(secondary_reqs) = 1
    /\ primary_reqs[1].rate = <<"+", "0", "%">>
    /\ secondary_reqs[1].rate = <<"+", "0", "%">>

(* C15: within one call the primary engine is asked at most once and the
   secondary at most once, the secondary never after the primary completed,
   and nothing is asked once the call returned. *)
C15_AtMostOneFallback ==
    /\ Len(primary_reqs) <= 1
    /\ Len(secondary_reqs) <= 1
    /\ primary_reason = "completed" => secondary_reqs = <<>>
    /\ secondary_reqs # <<>> => (tts_pc = "returned" /\ PrimaryFailed)

\* The primary completed with a file whose duration could not be read: the
\* call returned 0.0 and the secondary was not asked.
C15_Witness ==
    /\ tts_pc = "returned"
    /\ primary_reason = "completed"
    /\ out_file.present /\ ~out_file.readable
    /\ tts_out = 0
    /\ Len(primary_reqs) = 1 /\ secondary_reqs = <<>>

(* C16: when the primary engine completed and left a file whose duration
   metadata cannot be read, the call returns a positive duration (the
   estimate from the file's size) and not 0.0, the value of a failed
   synthesis. *)
C16_SizeEstimateOnReadFailure ==
    (tts_pc = "returned" /\ primary_reason = "completed"
        /\ out_file.present /\ ~out_file.readable)
    => tts_out > 0

\* Both engines were tried, or could not be, and neither produced audio.
BothEnginesFailed ==
    /\ PrimaryFailed
    /\ \A i \in 1..Len(secondary_reqs) : ~secondary_reqs[i].saved

(* C19: a call in which both engines failed returns no duration (0.0, on
   which the builders drop the piece), whatever file is at the output
   path. *)
C19_BothFailedNoDuration ==
    (tts_pc = "returned" /\ BothEnginesFailed) => tts_out = 0

(***************************************************************************)
(* Claims about what the builders record and survive (SpecAudio)           *)
(***************************************************************************)
(* C17: every audio piece recorded in a builder's timing metadata (opening,
   segments, parts, question block, answer block, closing) has a duration
   strictly greater than zero. *)
C17_RecordedDurationsPositive ==
    /\ result.opening # None => result.opening.duration > 0
    /\ result.closing # None => result.closing.duration > 0
    /\ \A i \in 1..Len(result.segments) : result.segments[i].duration > 0
    /\ \A i \in 1..Len(result.parts) : result.parts[i].duration > 0
    /\ result.question_audio # None => result.question_audio.duration > 0
    /\ result.answer_audio # None => result.answer_audio.duration > 0

(* C18: no builder is left by an exception: whatever synthesis fails, the
   builder goes on without the piece and returns its result. *)
C18_BuilderNeverRaises == pc # "raised"

(***************************************************************************)
(* Claims about generate_tiktok_assets (checked under SpecAssets)          *)
(***************************************************************************)
\* The builders generate_tiktok_assets is due to await.
DueBuilders ==
    SelectSeq(AssetBuilders, LAMBDA key : key # "video_5_deep_dive" \/ phase4_present)

(* C20: with a top-level script present, asset generation awaits every
   builder that is due, whatever synthesis failed inside any of them, and
   returns; main is not left by an exception. *)
C20_PieceFailureAbsorbed ==
    /\ (tiktok_present /\ assets_pc \in {"returned", "raised"})
       => /\ assets_pc = "returned"
          /\ [i \in 1..Len(builds) |-> builds[i].key] = DueBuilders
    /\ run_pc # "crashed"

(***************************************************************************)
(* Claims about the order of the pieces (checked under SpecAudio)          *)
(***************************************************************************)
\* The spoken pieces of an audio, its silences left out.
SpokenPieces(audio) == SelectSeq(audio, LAMBDA p : p.kind = "piece")

\* The place of a piece in the script: opening, content part i, closing.
SrcRank(src) ==
    IF src = "opening" THEN -1
    ELSE IF src = "closing" THEN Len(Digits)
    ELSE CHOOSE i \in 0..(Len(Digits) - 1) : IdxStr(i) = src

\* The content parts the metadata of a news or outline result lists.
ContentMeta == IF variant = "video_1" THEN result.segments ELSE result.parts

ContentPieces(audio) ==
    SelectSeq(SpokenPieces(audio), LAMBDA p : p.src \notin {"opening", "closing"})

(* C21: in the news and outline variants the voiced pieces of the combined
   audio are in the order opening, content parts by their place in the
   script, closing; the metadata lists the same content parts in the same
   order, and an opening or closing exactly when the audio has one. *)
C21_FixedPieceOrder ==
    variant \in {"video_1", "video_2"} =>
        LET voiced  == SpokenPieces(combined_audio)
            content == ContentPieces(combined_audio)
        IN  /\ \A i, j \in 1..Len(voiced) :
                  i < j => SrcRank(voiced[i].src) < SrcRank(voiced[j].src)
            /\ [i \in 1..Len(content) |-> <<SrcRank(content[i].src), content[i].path>>]
                 = [i \in 1..Len(ContentMeta) |-> <<ContentMeta[i].src, ContentMeta[i].audio_path>>]
            /\ (result.opening # None) <=> (\E i \in 1..Len(voiced) : voiced[i].src = "opening")
            /\ (result.closing # None) <=> (\E i \in 1..Len(voiced) : voiced[i].src = "closing")

C21_Witness ==
    /\ variant = "video_2" /\ pc = "returned"
    /\ Len(SpokenPieces(combined_audio)) = 4
    /\ Len(result.parts) = 2

(***************************************************************************)
(* Claims about a whole run (checked under SpecMain)                       *)
(***************************************************************************)
(* C22: a run of main whose data_p3 has no tiktok_script awaits no builder
   (so makes no synthesis call), writes no final_data.json and never enters
   the render loop: it returns at the test after the asset generation.  And
   a render job whose props file does not exist never invokes the engine. *)
C22_AbsentInputAborts ==
    /\ (main_pc # "idle" /\ ~data_p3_tiktok)
         => /\ builders_run = 0
            /\ ~data_written
            /\ attempts = <<>>
            /\ render_pc = "idle"
            /\ main_pc \in {"assets", "check", "returned_early"}
    /\ ~json_exists => \A i \in 1..Len(attempts) : ~attempts[i].invoked

\* The run returned early although an older final_data.json is there.
C22_Witness == main_pc = "returned_early" /\ ~data_p3_tiktok /\ json_exists

(***************************************************************************)
(* Claims about asset paths (checked under SpecAudio)                      *)
(***************************************************************************)
\* The paths of the combined files (lines 1530, 1686, 1866, 2103).
CombinedPaths ==
    { Path("v1_", "news"), Path("v2_", "outline"), Path("v5_", "deep_dive") }
        \cup { quiz_combined_path(v) : v \in QuizVariants }

(* C23: the pieces a builder has produced are all at different paths, and
   none of them is at the path of a combined file. *)
C23_DistinctAssetPaths ==
    LET voiced == SpokenPieces(combined_audio)
    IN  /\ \A i, j \in 1..Len(voiced) : i # j => voiced[i].path # voiced[j].path
        /\ \A i \in 1..Len(voiced) : voiced[i].path \notin CombinedPaths

(***************************************************************************)
(* Claims about the scheduling of synthesis calls (checked under SpecSched)*)
(***************************************************************************)
(* C24: at most one synthesis call of a builder is in flight; the calls
   start in program order, and when a call starts the duration of every
   piece started before it is already known to the builder. *)
C24_OneSynthesisInFlight ==
    /\ Cardinality(in_flight) <= 1
    /\ \A k \in 1..(Len(started) - 1) :
          /\ started[k] < started[k + 1]
          /\ started[k] \in known

C24_Witness ==
    /\ call_kind = "executor" /\ co_pc = "done"
    /\ Len(started) = MaxPieces
    /\ known = 1..MaxPieces

(***************************************************************************)
(* Claims about the deep-dive timestamps (checked under SpecAudio)         *)
(***************************************************************************)
RECURSIVE OffsetBefore(_, _)
\* The measured durations of the segments before the i-th, each with its 0.5 s gap.
OffsetBefore(segs, i) ==
    IF i = 1 THEN 0
    ELSE OffsetBefore(segs, i - 1) + segs[i - 1].duration + PART_PAUSE_MS

(* C25: in the deep dive there is one timestamp per recorded segment, for
   the same section in the same order; its start is the sum of the measured
   durations and 0.5 s gaps of the segments recorded before it, rounded to
   the whole second, so the first start is 0; and the combined audio holds
   the same segments in the same order. *)
C25_TimestampIsOffsetBefore ==
    variant = "video_5" =>
        LET segs   == result.segments
            stamps == result.timestamps
            voiced == SpokenPieces(combined_audio)
        IN  /\ Len(stamps) = Len(segs)
            /\ Len(voiced) = Len(segs)
            /\ \A i \in 1..Len(segs) :
                  /\ stamps[i].section = segs[i].section
                  /\ stamps[i].start_sec = RoundSec(OffsetBefore(segs, i))
                  /\ voiced[i].path = segs[i].audio_path
                  /\ voiced[i].ms = segs[i].duration
            /\ Len(stamps) >= 1 => stamps[1].start_sec = 0

\* Three segments of one second each: starts 0, 2 (1.5 rounded to even), 3.
C25_Witness ==
    /\ variant = "video_5" /\ pc = "returned"
    /\ Len(result.timestamps) = 3
    /\ result.timestamps[2].start_sec = 2000
    /\ result.timestamps[3].start_sec = 3000

(***************************************************************************)
(* Claims about _get_section_label (checked under SpecLabel)               *)
(***************************************************************************)
\* The label the table gives for a key.
LabelOf(key) == labels[CHOOSE i \in 1..Len(labels) : labels[i].key = key].label

(* C26: a tag that starts with a key of the table gets that key's label,
   and every tag of the essay family ("essay_" and a paragraph label) and
   of the vocabulary family gets the label of its family, never the raw
   tag. *)
C26_FamilyLabel ==
    label_pc = "returned" =>
        /\ \A i \in 1..Len(labels) :
              IsPrefix(labels[i].key, label_section)
                  => \E j \in 1..Len(labels) : label_out = TableLabel(labels[j].label)
        /\ IsPrefix(<<"e", "s", "s", "a", "y", "_">>, label_section)
              => label_out = TableLabel(LabelOf(<<"e", "s", "s", "a", "y", "_", "i", "n", "t", "r", "o">>))
        /\ IsPrefix(<<"v", "o", "c", "a", "b", "_">>, label_section)
              => label_out = TableLabel(LabelOf(<<"v", "o", "c", "a", "b", "_", "i", "n", "t", "r", "o">>))

(***************************************************************************)
(* Claims about the silences of the news and outline variants (SpecAudio)  *)
(***************************************************************************)
\* Two spoken pieces of an audio with no spoken piece between them.
Neighbours(audio, i, j) ==
    /\ i < j
    /\ audio[i].kind = "piece" /\ audio[j].kind = "piece"
    /\ \A k \in (i + 1)..(j - 1) : audio[k].kind = "silent"

\* The pause of the variant: `AudioSegment.silent(duration=300)`, `pause`
VariantPause == IF variant = "video_1" THEN SHORT_PAUSE_MS ELSE PART_PAUSE_MS

(* C27: in the news and outline variants exactly one silence, of the
   variant's fixed length, lies between the opening and the first produced
   content part, and exactly one between the last produced content part
   and the closing. *)
C27_OneGapAtOpeningAndClosing ==
    variant \in {"video_1", "video_2"} =>
        \A i, j \in 1..Len(combined_audio) :
            ( /\ Neighbours(combined_audio, i, j)
              /\ \/ combined_audio[i].src = "opening" /\ combined_audio[j].src # "closing"
                 \/ combined_audio[i].src # "opening" /\ combined_audio[j].src = "closing" )
            => /\ j = i + 2
               /\ combined_audio[i + 1].ms = VariantPause

(***************************************************************************)
(* More claims about generate_azure_tts (checked under SpecTts)            *)
(***************************************************************************)
\* Whatever the secondary engine was asked, it saved a readable file.
SecondaryHealthy ==
    /\ \A i \in 1..Len(secondary_reqs) : secondary_reqs[i].saved
    /\ secondary_reqs # <<>> => out_file.present /\ out_file.readable

(* C28: a call whose primary engine failed, with the secondary engine
   installed and healthy, returns the audio of one request to the secondary
   engine with a positive measured duration, whether or not the calling
   thread is running the event loop. *)
C28_FallbackAudioInEveryContext ==
    (tts_pc = "returned" /\ PrimaryFailed /\ edge_available /\ SecondaryHealthy)
    => /\ Len(secondary_reqs) = 1
       /\ tts_out > 0
       /\ tts_out = get_audio_duration(out_file)

\* The same, for calls made on a thread that runs no event loop.
C28_OutsideEventLoop == ~in_event_loop => C28_FallbackAudioInEveryContext

(***************************************************************************)
(* Claims about the combined file of a variant (checked under SpecAudio)   *)
(***************************************************************************)
\* The builder exported a combined file in this run.
Exported == export_measured # -1

(* C29: a returned result names a combined audio only if the builder
   exported the combined file in this run; a variant with no piece produced
   reports no combined audio. *)
C29_CombinedOnlyIfExported ==
    pc = "returned" =>
        /\ result.combined_audio # None => Exported
        /\ SpokenPieces(combined_audio) = <<>> => result.combined_audio = None

\* The call went on to the engines: the primary was tried or found unavailable.
EnginesReached == primary_reason # "none"

(* C30: a call with a non-blank text in which Vietnamese was detected goes
   on to the engines with the Vietnamese taken out; the detection alone
   never makes it return without an attempt. *)
C30_VietnameseStrippedNotRefused ==
    (tts_pc = "returned" /\ tts_viet # "none" /\ ~IsBlank(tts_text))
    => /\ EnginesReached
       /\ spoken = cleaned_text(tts_text)

\* The same, for texts that keep more than 10 characters without the Vietnamese.
C30_PartlyVietnamese == tts_viet = "partly" => C30_VietnameseStrippedNotRefused

====
